---- MODULE Spec2Model ----
(***************************************************************************)
(* A model of the Doppler MCP server: the OpenAPI-to-tool compiler         *)
(* (OpenAPIParser: tool naming, validator synthesis, the compile pass) and *)
(* the scope-guarded invocation engine (ToolGenerator on top of            *)
(* DopplerClient.makeRequest).                                             *)
(*                                                                         *)
(* Strings are TLA+ strings; Len, SubSeq and \o act on them character by   *)
(* character, so the regular expressions of the source are modelled by     *)
(* what they do to the characters.                                         *)
(***************************************************************************)
EXTENDS Integers, Sequences, FiniteSets, TLC

VARIABLES
    namer,        \* one call of OpenAPIParser.generateToolName
    compiler,     \* one OpenAPIParser instance: its spec and parseToTools' result
    validation,   \* one inputSchema (createInputSchema) and one parse of an input
    scope,        \* ToolGenerator.scope
    invocations,  \* the calls of a tool's execute, each with its position
    server,       \* one run of createDopplerMCPServer and the server it creates
    merging,      \* one call of mergeScope
    keyring,      \* the entry of the system keyring that TokenCache reads and deletes
    session,      \* the tool calls made to a started server, in order
    polling       \* one DeviceAuthState: its fields, its timer and its requests

vars == <<namer, compiler, validation, scope, invocations, server, merging,
          keyring, session, polling>>

(***************************************************************************)
(* Bounds of the model.                                                    *)
(***************************************************************************)
MaxSegs == 2        \* path segments after the optional /v3 prefix
MaxIdChunks == 3    \* pieces an operationId is assembled from
MaxOps == 3         \* operations in one input document

(***************************************************************************)
(* JavaScript string primitives.                                           *)
(***************************************************************************)
CharAt(s, i) == SubSeq(s, i, i)

Substring(s, from, to) == SubSeq(s, from + 1, to)   \* String.substring(from, to)

StartsWith(s, p) == Len(s) >= Len(p) /\ SubSeq(s, 1, Len(p)) = p

EndsWith(s, p) == Len(s) >= Len(p) /\ SubSeq(s, Len(s) - Len(p) + 1, Len(s)) = p

Contains(s, p) == \E i \in 1..(Len(s) - Len(p) + 1) : SubSeq(s, i, i + Len(p) - 1) = p

UpperLetters == "ABCDEFGHIJKLMNOPQRSTUVWXYZ"
LowerLetters == "abcdefghijklmnopqrstuvwxyz"

LowerChar(c) ==
    IF \E i \in 1..26 : CharAt(UpperLetters, i) = c
    THEN CharAt(LowerLetters, CHOOSE i \in 1..26 : CharAt(UpperLetters, i) = c)
    ELSE c

UpperChar(c) ==
    IF \E i \in 1..26 : CharAt(LowerLetters, i) = c
    THEN CharAt(UpperLetters, CHOOSE i \in 1..26 : CharAt(LowerLetters, i) = c)
    ELSE c

\* a string is mapped by halves, so that the nesting stays shallow
RECURSIVE MapChars(_, _)
MapChars(s, upper) ==
    IF s = "" THEN ""
    ELSE IF Len(s) = 1 THEN (IF upper THEN UpperChar(s) ELSE LowerChar(s))
    ELSE MapChars(SubSeq(s, 1, Len(s) \div 2), upper)
         \o MapChars(SubSeq(s, Len(s) \div 2 + 1, Len(s)), upper)

ToLowerCase(s) == MapChars(s, FALSE)
ToUpperCase(s) == MapChars(s, TRUE)

\* s.replace(/-/g, "_")
RECURSIVE DashesToUnderscores(_)
DashesToUnderscores(s) ==
    IF s = "" THEN ""
    ELSE IF Len(s) = 1 THEN (IF s = "-" THEN "_" ELSE s)
    ELSE DashesToUnderscores(SubSeq(s, 1, Len(s) \div 2))
         \o DashesToUnderscores(SubSeq(s, Len(s) \div 2 + 1, Len(s)))

\* s.replace(/_+/g, "_"): by halves; a run that spans the cut is joined
RECURSIVE CollapseUnderscores(_)
CollapseUnderscores(s) ==
    IF Len(s) < 2 THEN s
    ELSE LET left  == CollapseUnderscores(SubSeq(s, 1, Len(s) \div 2))
             right == CollapseUnderscores(SubSeq(s, Len(s) \div 2 + 1, Len(s)))
         IN IF EndsWith(left, "_") /\ StartsWith(right, "_")
            THEN left \o SubSeq(right, 2, Len(right))
            ELSE left \o right

\* s.replace(/_$/, "")
StripTrailingUnderscore(s) ==
    IF EndsWith(s, "_") THEN SubSeq(s, 1, Len(s) - 1) ELSE s

\* s.replace(/^_/, "")
StripLeadingUnderscore(s) ==
    IF StartsWith(s, "_") THEN SubSeq(s, 2, Len(s)) ELSE s

\* The end of the leftmost match of /\{[^}]+\}/ that starts at i, or 0.
TemplateEnd(s, i) ==
    IF CharAt(s, i) # "{" THEN 0
    ELSE IF \E j \in (i + 1)..Len(s) : CharAt(s, j) = "}"
         THEN LET j == CHOOSE k \in (i + 1)..Len(s) :
                           /\ CharAt(s, k) = "}"
                           /\ \A m \in (i + 1)..(k - 1) : CharAt(s, m) # "}"
              IN IF j >= i + 2 THEN j ELSE 0
         ELSE 0

\* /\{[^}]+\}/.test(s)
HasTemplate(s) == \E i \in 1..Len(s) : TemplateEnd(s, i) # 0

\* the first position of character c in s, or 0
FirstIndexOf(s, c) ==
    IF \E i \in 1..Len(s) : CharAt(s, i) = c
    THEN CHOOSE i \in 1..Len(s) :
             CharAt(s, i) = c /\ \A j \in 1..(i - 1) : CharAt(s, j) # c
    ELSE 0

\* s.replace(/\{[^}]+\}/g, ""): from one opening brace to the next
RECURSIVE RemoveTemplates(_)
RemoveTemplates(s) ==
    LET i == FirstIndexOf(s, "{")
    IN IF i = 0 THEN s
       ELSE IF TemplateEnd(s, i) # 0
            THEN SubSeq(s, 1, i - 1)
                 \o RemoveTemplates(SubSeq(s, TemplateEnd(s, i) + 1, Len(s)))
            ELSE SubSeq(s, 1, i) \o RemoveTemplates(SubSeq(s, i + 1, Len(s)))

\* s.split("/").filter(Boolean): the non-empty pieces between slashes
RECURSIVE SplitSegments(_)
SplitSegments(s) ==
    LET i == FirstIndexOf(s, "/")
    IN IF s = "" THEN <<>>
       ELSE IF i = 0 THEN <<s>>
       ELSE (IF i = 1 THEN <<>> ELSE <<SubSeq(s, 1, i - 1)>>)
            \o SplitSegments(SubSeq(s, i + 1, Len(s)))

\* parts.join("_")
RECURSIVE Join(_)
Join(parts) ==
    IF parts = <<>> THEN ""
    ELSE IF Len(parts) = 1 THEN parts[1]
         ELSE parts[1] \o "_" \o Join(Tail(parts))

(***************************************************************************)
(* ToolNamer: OpenAPIParser.generateToolName and its helpers.              *)
(***************************************************************************)
MaxNameLen == 64

HttpMethodWords == {"get", "post", "put", "patch", "delete"}

isCleanOperationId(operationId) ==
    /\ ~Contains(ToLowerCase(operationId), "v3")
    /\ ~HasTemplate(operationId)
    /\ ~\E w \in HttpMethodWords : StartsWith(ToLowerCase(operationId), w \o "_")

\* sanitizeOperationId without the trim after the cut at the limit
sanitizeOperationId_noFinalTrim(operationId) ==
    LET name == StripTrailingUnderscore(
                    CollapseUnderscores(
                        RemoveTemplates(DashesToUnderscores(operationId))))
    IN IF Len(name) > MaxNameLen THEN Substring(name, 0, MaxNameLen) ELSE name

sanitizeOperationId(operationId) ==
    LET name == StripTrailingUnderscore(
                    CollapseUnderscores(
                        RemoveTemplates(DashesToUnderscores(operationId))))
    IN IF Len(name) > MaxNameLen
       THEN StripTrailingUnderscore(Substring(name, 0, MaxNameLen))
       ELSE name

actionWords ==
    {"clone", "lock", "unlock", "rollback", "download", "rename",
     "close", "apply", "review", "status", "enable", "disable"}

\* step 3 of generateFromPath: the retained segments, in snake case
RECURSIVE PathParts(_)
PathParts(segments) ==
    IF segments = <<>> THEN <<>>
    ELSE IF StartsWith(Head(segments), "{")
         THEN PathParts(Tail(segments))
         ELSE <<DashesToUnderscores(Head(segments))>> \o PathParts(Tail(segments))

\* the action of the method, with `get` for every GET
MethodAction_getAlways(method, path) ==
    LET methodUpper == ToUpperCase(method)
    IN CASE methodUpper = "GET" -> "get"
         [] methodUpper = "POST" -> "create"
         [] methodUpper \in {"PUT", "PATCH"} -> "update"
         [] methodUpper = "DELETE" -> "delete"
         [] OTHER -> ToLowerCase(method)

\* step 4 of generateFromPath: the action of the method
MethodAction(method, path) ==
    LET methodUpper == ToUpperCase(method)
    IN CASE methodUpper = "GET" -> (IF EndsWith(path, "}") THEN "get" ELSE "list")
         [] methodUpper = "POST" -> "create"
         [] methodUpper \in {"PUT", "PATCH"} -> "update"
         [] methodUpper = "DELETE" -> "delete"
         [] OTHER -> ToLowerCase(method)

\* generateFromPath whose clean-up trims the trailing underscore only
generateFromPath_noLeadingTrim(method, path) ==
    LET cleanPath == IF StartsWith(path, "/v3/") THEN SubSeq(path, 5, Len(path)) ELSE path
        allParts  == PathParts(SplitSegments(cleanPath))
        isAction  == allParts # <<>> /\ allParts[Len(allParts)] \in actionWords
        lastPart  == allParts[Len(allParts)]
        action    == IF isAction
                     THEN (IF ToUpperCase(method) = "DELETE"
                           THEN lastPart \o "_delete" ELSE lastPart)
                     ELSE MethodAction(method, path)
        parts     == IF isAction THEN SubSeq(allParts, 1, Len(allParts) - 1) ELSE allParts
        joined    == Join(parts)
        built     == IF ~EndsWith(joined, "_" \o action) /\ ~EndsWith(joined, action)
                     THEN joined \o "_" \o action ELSE joined
        cleaned   == StripTrailingUnderscore(CollapseUnderscores(built))
    IN IF Len(cleaned) > MaxNameLen
       THEN StripTrailingUnderscore(Substring(cleaned, 0, MaxNameLen))
       ELSE cleaned

generateFromPath(method, path) ==
    LET cleanPath == IF StartsWith(path, "/v3/") THEN SubSeq(path, 5, Len(path)) ELSE path
        allParts  == PathParts(SplitSegments(cleanPath))
        isAction  == allParts # <<>> /\ allParts[Len(allParts)] \in actionWords
        lastPart  == allParts[Len(allParts)]
        action    == IF isAction
                     THEN (IF ToUpperCase(method) = "DELETE"
                           THEN lastPart \o "_delete" ELSE lastPart)
                     ELSE MethodAction(method, path)
        parts     == IF isAction THEN SubSeq(allParts, 1, Len(allParts) - 1) ELSE allParts
        joined    == Join(parts)
        built     == IF ~EndsWith(joined, "_" \o action) /\ ~EndsWith(joined, action)
                     THEN joined \o "_" \o action ELSE joined
        cleaned   == StripTrailingUnderscore(StripLeadingUnderscore(CollapseUnderscores(built)))
    IN IF Len(cleaned) > MaxNameLen
       THEN StripTrailingUnderscore(Substring(cleaned, 0, MaxNameLen))
       ELSE cleaned

generateToolName(method, path, operationId) ==
    IF isCleanOperationId(operationId)
    THEN sanitizeOperationId(operationId)
    ELSE generateFromPath(method, path)

(***************************************************************************)
(* JSON values.  A value is a record tagged with its JavaScript type; an   *)
(* object is a function from its own keys to values, an array a sequence.  *)
(* A number n/2 is kept as its double in `half`, so that 1.5 is a value.   *)
(***************************************************************************)
Undefined == [t |-> "undefined"]
Str(s)    == [t |-> "string", v |-> s]
Num(n)    == [t |-> "number", half |-> 2 * n]
Half(h)   == [t |-> "number", half |-> h]
Bool(b)   == [t |-> "boolean", v |-> b]
Arr(a)    == [t |-> "array", v |-> a]
Obj(o)    == [t |-> "object", v |-> o]

EmptyObject == [k \in {} |-> Undefined]

\* obj[key] in JavaScript: undefined when the object has no such key
Prop(o, key) == IF key \in DOMAIN o THEN o[key] ELSE Undefined

\* the object `base` after the assignments base[k] = over[k], k in DOMAIN over
Assign(base, over) ==
    [k \in DOMAIN base \cup DOMAIN over |-> IF k \in DOMAIN over THEN over[k] ELSE base[k]]

(***************************************************************************)
(* The zod schemas that convertSchemaToZod builds, as trees, and zod's     *)
(* safeParse on them (ParseZod): [success, data].                          *)
(***************************************************************************)
ZAny              == [z |-> "any"]
ZNever            == [z |-> "never"]
ZBoolean          == [z |-> "boolean"]
ZRecordAny        == [z |-> "record"]
ZString(checks)   == [z |-> "string", checks |-> checks]
ZNumber(checks)   == [z |-> "number", checks |-> checks]
ZEnum(values)     == [z |-> "enum", values |-> values]
ZLiteral(value)   == [z |-> "literal", value |-> value]
ZUnion(options)   == [z |-> "union", options |-> options]
ZArray(element)   == [z |-> "array", element |-> element]
ZOptional(inner)  == [z |-> "optional", inner |-> inner]
ZObject(shape, unknownKeys) == [z |-> "object", shape |-> shape, unknownKeys |-> unknownKeys]

Ok(data) == [success |-> TRUE, data |-> data]
Fail     == [success |-> FALSE, data |-> Undefined]

\* the patterns of the schemas of the model, by what they match
MatchesPattern(pattern, s) ==
    CASE pattern = "^[a-z]+$" ->
             /\ s # ""
             /\ \A i \in 1..Len(s) : \E j \in 1..26 : CharAt(LowerLetters, j) = CharAt(s, i)
      [] OTHER -> Contains(s, pattern)

\* zod's email and url checks, on the strings of the model
LooksLikeEmail(s) ==
    \E i \in 2..(Len(s) - 1) :
        /\ CharAt(s, i) = "@"
        /\ ~Contains(SubSeq(s, 1, i - 1), "@")
        /\ ~Contains(SubSeq(s, i + 1, Len(s)), "@")
        /\ Contains(SubSeq(s, i + 1, Len(s)), ".")

LooksLikeUrl(s) == StartsWith(s, "http://") \/ StartsWith(s, "https://")

StringCheck(check, s) ==
    CASE check.kind = "email" -> LooksLikeEmail(s)
      [] check.kind = "url"   -> LooksLikeUrl(s)
      [] check.kind = "regex" -> MatchesPattern(check.pattern, s)
      [] check.kind = "min"   -> Len(s) >= check.value
      [] check.kind = "max"   -> Len(s) <= check.value

NumberCheck(check, half) ==
    CASE check.kind = "int" -> half % 2 = 0
      [] check.kind = "min" -> half >= 2 * check.value
      [] check.kind = "max" -> half <= 2 * check.value

RECURSIVE ParseZod(_, _)

\* the first option of a union that accepts the value
RECURSIVE ParseUnion(_, _)
ParseUnion(options, value) ==
    IF options = <<>> THEN Fail
    ELSE IF ParseZod(Head(options), value).success
         THEN ParseZod(Head(options), value)
         ELSE ParseUnion(Tail(options), value)

\* ZodObject: every key of the shape is parsed; a key that the shape does not
\* declare is kept under "passthrough" and dropped under "strip"
ParseObject(schema, value) ==
    LET shape  == schema.shape
        input  == value.v
        parsed == [k \in DOMAIN shape |-> ParseZod(shape[k], Prop(input, k))]
        kept   == {k \in DOMAIN shape : k \in DOMAIN input \/ parsed[k].data # Undefined}
        extra  == IF schema.unknownKeys = "passthrough"
                  THEN DOMAIN input \ DOMAIN shape ELSE {}
    IN IF \A k \in DOMAIN shape : parsed[k].success
       THEN Ok(Obj([k \in kept \cup extra |->
                       IF k \in kept THEN parsed[k].data ELSE input[k]]))
       ELSE Fail

ParseArray(schema, value) ==
    LET parsed == [i \in 1..Len(value.v) |-> ParseZod(schema.element, value.v[i])]
    IN IF \A i \in 1..Len(value.v) : parsed[i].success
       THEN Ok(Arr([i \in 1..Len(value.v) |-> parsed[i].data]))
       ELSE Fail

ParseZod(schema, value) ==
    CASE schema.z = "any"      -> Ok(value)
      [] schema.z = "never"    -> Fail
      [] schema.z = "optional" ->
             IF value = Undefined THEN Ok(Undefined) ELSE ParseZod(schema.inner, value)
      [] schema.z = "boolean"  -> IF value.t = "boolean" THEN Ok(value) ELSE Fail
      [] schema.z = "string"   ->
             IF value.t = "string"
                /\ \A i \in 1..Len(schema.checks) : StringCheck(schema.checks[i], value.v)
             THEN Ok(value) ELSE Fail
      [] schema.z = "number"   ->
             IF value.t = "number"
                /\ \A i \in 1..Len(schema.checks) : NumberCheck(schema.checks[i], value.half)
             THEN Ok(value) ELSE Fail
      [] schema.z = "enum"     ->
             IF value.t = "string" /\ \E i \in 1..Len(schema.values) : schema.values[i] = value.v
             THEN Ok(value) ELSE Fail
      [] schema.z = "literal"  -> IF value = schema.value THEN Ok(value) ELSE Fail
      [] schema.z = "union"    -> ParseUnion(schema.options, value)
      [] schema.z = "record"   -> IF value.t = "object" THEN Ok(value) ELSE Fail
      [] schema.z = "array"    -> IF value.t = "array" THEN ParseArray(schema, value) ELSE Fail
      [] schema.z = "object"   -> IF value.t = "object" THEN ParseObject(schema, value) ELSE Fail

(***************************************************************************)
(* SchemaTranslator: OpenAPIParser.convertSchemaToZod and                  *)
(* createInputSchema.  A SchemaObject is a record that has a field exactly *)
(* when the source object has it.                                          *)
(***************************************************************************)
Has(r, field) == field \in DOMAIN r

\* literals taken as they are
StripQuotes_none(s) == s

\* val.replace(/^"|"$/g, ""): one quote at the start and one at the end
StripQuotes(s) ==
    LET a == IF StartsWith(s, "\"") THEN SubSeq(s, 2, Len(s)) ELSE s
    IN IF EndsWith(a, "\"") THEN SubSeq(a, 1, Len(a) - 1) ELSE a

\* patterns that `new RegExp` refuses with a SyntaxError
InvalidPatterns == {"["}

StringChecks(schema) ==
    (IF Has(schema, "format") /\ schema.format = "email" THEN <<[kind |-> "email"]>>
     ELSE IF Has(schema, "format") /\ schema.format = "uri" THEN <<[kind |-> "url"]>>
     ELSE IF Has(schema, "pattern") /\ schema.pattern # ""
          THEN <<[kind |-> "regex", pattern |-> schema.pattern]>>
     ELSE <<>>)
    \o (IF Has(schema, "minimum") THEN <<[kind |-> "min", value |-> schema.minimum]>> ELSE <<>>)
    \o (IF Has(schema, "maximum") THEN <<[kind |-> "max", value |-> schema.maximum]>> ELSE <<>>)

NumberChecks(schema) ==
    (IF schema.type = "integer" THEN <<[kind |-> "int"]>> ELSE <<>>)
    \o (IF Has(schema, "minimum") THEN <<[kind |-> "min", value |-> schema.minimum]>> ELSE <<>>)
    \o (IF Has(schema, "maximum") THEN <<[kind |-> "max", value |-> schema.maximum]>> ELSE <<>>)

RECURSIVE convertSchemaToZod(_)

\* the fields of an object schema: optional unless listed in `required`
ObjectFields(schema) ==
    [name \in DOMAIN schema.properties |->
        IF Has(schema, "required") /\ name \in schema.required
        THEN convertSchemaToZod(schema.properties[name])
        ELSE ZOptional(convertSchemaToZod(schema.properties[name]))]

\* convertSchemaToZod whose nested objects are closed: no passthrough()
convertSchemaToZod_strip(schema) ==
    IF Has(schema, "enum")
    THEN IF \A i \in 1..Len(schema.enum) : schema.enum[i].t = "string"
         THEN ZEnum([i \in 1..Len(schema.enum) |-> StripQuotes(schema.enum[i].v)])
         ELSE IF Len(schema.enum) = 0 THEN ZNever
         ELSE IF Len(schema.enum) = 1 THEN ZLiteral(schema.enum[1])
         ELSE ZUnion([i \in 1..Len(schema.enum) |-> ZLiteral(schema.enum[i])])
    ELSE IF ~Has(schema, "type") THEN ZAny
    ELSE CASE schema.type = "string" ->
                  IF Has(schema, "format") /\ schema.format = "json"
                  THEN ZRecordAny
                  ELSE ZString(StringChecks(schema))
           [] schema.type \in {"number", "integer"} -> ZNumber(NumberChecks(schema))
           [] schema.type = "boolean" -> ZBoolean
           [] schema.type = "array" ->
                  IF Has(schema, "items")
                  THEN ZArray(convertSchemaToZod(schema.items))
                  ELSE ZArray(ZAny)
           [] schema.type = "object" ->
                  IF Has(schema, "properties")
                  THEN ZObject(ObjectFields(schema), "strip")
                  ELSE ZRecordAny
           [] OTHER -> ZAny

convertSchemaToZod(schema) ==
    IF Has(schema, "enum")
    THEN IF \A i \in 1..Len(schema.enum) : schema.enum[i].t = "string"
         THEN ZEnum([i \in 1..Len(schema.enum) |-> StripQuotes(schema.enum[i].v)])
         ELSE IF Len(schema.enum) = 0 THEN ZNever
         ELSE IF Len(schema.enum) = 1 THEN ZLiteral(schema.enum[1])
         ELSE ZUnion([i \in 1..Len(schema.enum) |-> ZLiteral(schema.enum[i])])
    ELSE IF ~Has(schema, "type") THEN ZAny
    ELSE CASE schema.type = "string" ->
                  IF Has(schema, "format") /\ schema.format = "json"
                  THEN ZRecordAny
                  ELSE ZString(StringChecks(schema))
           [] schema.type \in {"number", "integer"} -> ZNumber(NumberChecks(schema))
           [] schema.type = "boolean" -> ZBoolean
           [] schema.type = "array" ->
                  IF Has(schema, "items")
                  THEN ZArray(convertSchemaToZod(schema.items))
                  ELSE ZArray(ZAny)
           [] schema.type = "object" ->
                  IF Has(schema, "properties")
                  THEN ZObject(ObjectFields(schema), "passthrough")
                  ELSE ZRecordAny
           [] OTHER -> ZAny

\* convertSchemaToZod throws: `new RegExp(schema.pattern)` on an invalid pattern
RECURSIVE SchemaThrows(_)
SchemaThrows(schema) ==
    IF Has(schema, "enum") \/ ~Has(schema, "type") THEN FALSE
    ELSE CASE schema.type = "string" ->
                  /\ ~(Has(schema, "format") /\ schema.format \in {"json", "email", "uri"})
                  /\ Has(schema, "pattern") /\ schema.pattern \in InvalidPatterns
           [] schema.type = "array" -> Has(schema, "items") /\ SchemaThrows(schema.items)
           [] schema.type = "object" ->
                  /\ Has(schema, "properties")
                  /\ \E name \in DOMAIN schema.properties : SchemaThrows(schema.properties[name])
           [] OTHER -> FALSE

\* Object.keys(requestBody.content)[0] === "application/json"
HasJsonBody(requestBody) ==
    /\ requestBody # Undefined
    /\ requestBody.content # <<>>
    /\ requestBody.content[1].contentType = "application/json"

\* the schema of the JSON body when it has properties, else none
BodySchemaWithProperties(operation) ==
    IF HasJsonBody(operation.requestBody)
       /\ Has(operation.requestBody.content[1], "schema")
       /\ Has(operation.requestBody.content[1].schema, "properties")
    THEN operation.requestBody.content[1].schema
    ELSE [properties |-> EmptyObject]

\* schemaFields after the loop over operation.parameters
RECURSIVE ParameterFields(_)
ParameterFields(parameters) ==
    IF parameters = <<>> THEN EmptyObject
    ELSE LET param == parameters[Len(parameters)]
             zodSchema == convertSchemaToZod(param.schema)
         IN Assign(ParameterFields(SubSeq(parameters, 1, Len(parameters) - 1)),
                   [name \in {param.name} |->
                       IF param.required THEN zodSchema ELSE ZOptional(zodSchema)])

createInputSchema(operation) ==
    ZObject(Assign(ParameterFields(operation.parameters),
                   ObjectFields(BodySchemaWithProperties(operation))),
            "passthrough")

createInputSchemaThrows(operation) ==
    \/ \E i \in 1..Len(operation.parameters) : SchemaThrows(operation.parameters[i].schema)
    \/ LET body == BodySchemaWithProperties(operation)
       IN \E name \in DOMAIN body.properties : SchemaThrows(body.properties[name])

(***************************************************************************)
(* SpecIngester / ToolCompiler: parseToTools and createToolFromOperation.  *)
(* spec.paths is kept as the sequence of its (path, method) entries in     *)
(* Object.entries order: the methods of one path are next to each other.   *)
(***************************************************************************)
createToolFromOperation(path, method, operation) ==
    [name        |-> generateToolName(method, path, operation.operationId),
     description |-> IF operation.summary # "" THEN operation.summary
                     ELSE IF operation.description # "" THEN operation.description
                     ELSE ToUpperCase(method) \o " " \o path,
     inputSchema |-> createInputSchema(operation),
     method      |-> ToUpperCase(method),
     endpoint    |-> path,
     parameters  |-> operation.parameters,
     requestBody |-> operation.requestBody]

\* parseToTools without the test of operation.deprecated
RECURSIVE parseToTools_keepDeprecated(_)
parseToTools_keepDeprecated(entries) ==
    IF entries = <<>> THEN <<>>
    ELSE LET e == Head(entries)
         IN (IF e.operation.operationId # ""
                /\ ~createInputSchemaThrows(e.operation)
             THEN <<createToolFromOperation(e.path, e.method, e.operation)>>
             ELSE <<>>)
            \o parseToTools_keepDeprecated(Tail(entries))

\* parseToTools with the try/catch around the whole loop: the pass stops at
\* the first operation whose schema throws
RECURSIVE parseToTools_abort(_)
parseToTools_abort(entries) ==
    IF entries = <<>> THEN <<>>
    ELSE LET e == Head(entries)
         IN IF e.operation.operationId # "" /\ ~e.operation.deprecated
            THEN IF createInputSchemaThrows(e.operation)
                 THEN <<>>
                 ELSE <<createToolFromOperation(e.path, e.method, e.operation)>>
                      \o parseToTools_abort(Tail(entries))
            ELSE parseToTools_abort(Tail(entries))

RECURSIVE parseToTools(_)
parseToTools(entries) ==
    IF entries = <<>> THEN <<>>
    ELSE LET e == Head(entries)
         IN (IF e.operation.operationId # "" /\ ~e.operation.deprecated
                /\ ~createInputSchemaThrows(e.operation)
             THEN <<createToolFromOperation(e.path, e.method, e.operation)>>
             ELSE <<>>)
            \o parseToTools(Tail(entries))

(***************************************************************************)
(* ScopeGuard and RequestBuilder: ToolGenerator.executeTool.  An           *)
(* invocation input is a function from its own keys to string values; a    *)
(* key with the value undefined is a key the input does not have.          *)
(***************************************************************************)
\* JavaScript truthiness of obj[key] for string values
Truthy(obj, key) == key \in DOMAIN obj /\ obj[key] # ""

\* properties every object literal inherits from Object.prototype
ObjectPrototypeKeys ==
    {"constructor", "toString", "toLocaleString", "valueOf", "hasOwnProperty",
     "isPrototypeOf", "propertyIsEnumerable", "__proto__"}

\* `key in obj` for an object literal: own keys and inherited ones
In(key, obj) == key \in DOMAIN obj \/ key \in ObjectPrototypeKeys

\* `obj[key] !== undefined`: an own key, or a member found on the prototype
Defined(obj, key) == key \in DOMAIN obj \/ key \in ObjectPrototypeKeys

\* obj[key] when it is defined; an inherited member is kept as its String()
Member(obj, key) ==
    IF key \in DOMAIN obj THEN obj[key]
    ELSE IF key = "constructor" THEN "function Object() { [native code] }"
    ELSE IF key = "__proto__" THEN "[object Object]"
    ELSE "function " \o key \o "() { [native code] }"

\* encodeURIComponent, on the characters of the model
EncodeChar(c) ==
    CASE c = " " -> "%20"
      [] c = "/" -> "%2F"
      [] c = "{" -> "%7B"
      [] c = "}" -> "%7D"
      [] c = "$" -> "%24"
      [] c = "[" -> "%5B"
      [] c = "]" -> "%5D"
      [] OTHER -> c

RECURSIVE encodeURIComponent(_)
encodeURIComponent(s) ==
    IF s = "" THEN ""
    ELSE IF Len(s) = 1 THEN EncodeChar(s)
    ELSE encodeURIComponent(SubSeq(s, 1, Len(s) \div 2))
         \o encodeURIComponent(SubSeq(s, Len(s) \div 2 + 1, Len(s)))

\* s.replace(pattern, replacement) with a string pattern: the first occurrence
ReplaceFirst(s, pattern, replacement) ==
    IF Contains(s, pattern)
    THEN LET i == CHOOSE k \in 1..Len(s) :
                      /\ SubSeq(s, k, k + Len(pattern) - 1) = pattern
                      /\ \A m \in 1..(k - 1) : SubSeq(s, m, m + Len(pattern) - 1) # pattern
         IN SubSeq(s, 1, i - 1) \o replacement \o SubSeq(s, i + Len(pattern), Len(s))
    ELSE s

ScopeViolationError(message) == [name |-> "ScopeViolationError", message |-> message]

\* the messages of the two checks; dimension is "project" or "config"
TokenViolationMessage(dimension, configured, requested) ==
    (IF dimension = "project" THEN "Project" ELSE "Config")
    \o " scope violation: Your token only has access to " \o dimension \o " \""
    \o configured \o "\", but the request targets " \o dimension \o " \""
    \o requested \o "\"."

ConfiguredViolationMessage(dimension, configured, requested) ==
    (IF dimension = "project" THEN "Project" ELSE "Config")
    \o " scope violation: This server is configured for " \o dimension \o " \""
    \o configured \o "\" but the request targets " \o dimension \o " \""
    \o requested \o "\". Remove the " \o dimension
    \o " parameter to use the configured " \o dimension \o ", or reconfigure the server."

\* the condition of one check of the guard
Violates(sc, input, dimension) ==
    /\ Truthy(sc, dimension)
    /\ Truthy(input, dimension)
    /\ input[dimension] # sc[dimension]

\* ViolationMessage that reads the origin of the project for both dimensions
ViolationMessage_projectSource(sc, input, dimension) ==
    IF Has(sc, "projectSource") /\ sc["projectSource"] = "token"
    THEN TokenViolationMessage(dimension, sc[dimension], input[dimension])
    ELSE ConfiguredViolationMessage(dimension, sc[dimension], input[dimension])

ViolationMessage(sc, input, dimension) ==
    IF Has(sc, dimension \o "Source") /\ sc[dimension \o "Source"] = "token"
    THEN TokenViolationMessage(dimension, sc[dimension], input[dimension])
    ELSE ConfiguredViolationMessage(dimension, sc[dimension], input[dimension])

\* the two checks in their order: the error thrown, if any
\* a guard that checks the project only
ScopeGuard_projectOnly(sc, input) ==
    IF Violates(sc, input, "project")
    THEN <<ScopeViolationError(ViolationMessage(sc, input, "project"))>>
    ELSE <<>>

ScopeGuard(sc, input) ==
    IF Violates(sc, input, "project")
    THEN <<ScopeViolationError(ViolationMessage(sc, input, "project"))>>
    ELSE IF Violates(sc, input, "config")
    THEN <<ScopeViolationError(ViolationMessage(sc, input, "config"))>>
    ELSE <<>>

Declares(tool, name) == \E i \in 1..Len(tool.parameters) : tool.parameters[i].name = name

\* Inject that fills nothing in
Inject_none(sc, tool, input, dimension) == input

\* auto-injection of one dimension into the input
Inject(sc, tool, input, dimension) ==
    IF Truthy(sc, dimension) /\ Declares(tool, dimension) /\ ~Truthy(input, dimension)
    THEN Assign(input, [k \in {dimension} |-> sc[dimension]])
    ELSE input

InjectScope(sc, tool, input) ==
    Inject(sc, tool, Inject(sc, tool, input, "config"), "project")

\* pathParams / queryParams: the parameters of a location for which
\* input[param.name] is not undefined
ParamsIn(tool, input, location) ==
    LET names == {tool.parameters[i].name : i \in
                     {j \in 1..Len(tool.parameters) :
                          /\ tool.parameters[j].in = location
                          /\ Defined(input, tool.parameters[j].name)}}
    IN [name \in names |-> Member(input, name)]

BodyData(tool, input, pathParams, queryParams) ==
    IF HasJsonBody(tool.requestBody)
    THEN LET keys == {key \in DOMAIN input : ~(In(key, pathParams) \/ In(key, queryParams))}
         IN [key \in keys |-> input[key]]
    ELSE [key \in {} |-> ""]

\* SubstitutePath that puts the value in as it is
RECURSIVE SubstitutePath_unencoded(_, _, _, _)
SubstitutePath_unencoded(endpoint, parameters, pathParams, seen) ==
    IF parameters = <<>> THEN endpoint
    ELSE LET name == Head(parameters).name
         IN SubstitutePath_unencoded(
                IF name \in DOMAIN pathParams /\ name \notin seen
                THEN ReplaceFirst(endpoint, "{" \o name \o "}", pathParams[name])
                ELSE endpoint,
                Tail(parameters), pathParams, seen \cup {name})

\* the substitutions, in the order of Object.entries(pathParams): one per key
RECURSIVE SubstitutePath(_, _, _, _)
SubstitutePath(endpoint, parameters, pathParams, seen) ==
    IF parameters = <<>> THEN endpoint
    ELSE LET name == Head(parameters).name
         IN SubstitutePath(
                IF name \in DOMAIN pathParams /\ name \notin seen
                THEN ReplaceFirst(endpoint, "{" \o name \o "}",
                                  encodeURIComponent(pathParams[name]))
                ELSE endpoint,
                Tail(parameters), pathParams, seen \cup {name})

\* the RequestOptions handed to makeRequest; `body` is a field only when defined
BuildRequest(tool, input) ==
    LET pathParams  == ParamsIn(tool, input, "path")
        queryParams == ParamsIn(tool, input, "query")
        bodyData    == BodyData(tool, input, pathParams, queryParams)
        base == [method      |-> tool.method,
                 endpoint    |-> SubstitutePath(tool.endpoint, tool.parameters, pathParams, {}),
                 queryParams |-> queryParams]
    IN IF DOMAIN bodyData # {} THEN base @@ [body |-> bodyData] ELSE base

(***************************************************************************)
(* The HTTP collaborator: DopplerClient.makeRequest on top of fetch.       *)
(***************************************************************************)
BaseUrl == "https://api.doppler.com"

MutatingMethods == {"POST", "PUT", "PATCH", "DELETE"}

\* FetchCall that attaches the body whatever the method
FetchCall_anyMethod(options) ==
    LET call == [method |-> options.method,
                 url    |-> [base |-> BaseUrl, endpoint |-> options.endpoint,
                             search |-> options.queryParams]]
    IN IF Has(options, "body") THEN call @@ [body |-> options.body] ELSE call

\* the call of fetch that makeRequest issues for its options
FetchCall(options) ==
    LET call == [method |-> options.method,
                 url    |-> [base |-> BaseUrl, endpoint |-> options.endpoint,
                             search |-> options.queryParams]]
    IN IF Has(options, "body") /\ options.method \in MutatingMethods
       THEN call @@ [body |-> options.body]
       ELSE call

APIError(error, message, statusCode) ==
    [name |-> "APIError", error |-> error, message |-> message, statusCode |-> statusCode]

handleErrorResponse(response) ==
    LET statusLine == "HTTP " \o ToString(response.status) \o " " \o response.statusText
    IN IF Contains(response.contentType, "application/json")
       THEN IF ~response.jsonValid
            THEN APIError("Failed to parse error response: " \o response.statusText,
                          statusLine, response.status)
            ELSE APIError(response.text,
                          IF Has(response.json, "messages") THEN response.json.messages
                          ELSE IF Truthy(response.json, "message") THEN response.json.message
                          ELSE IF Truthy(response.json, "error") THEN response.json.error
                          ELSE statusLine,
                          response.status)
       ELSE APIError(response.text, statusLine, response.status)

\* what makeRequest does once fetch has resolved: [returned, value] or [thrown, error]
AfterFetch(response) ==
    IF ~response.ok
    THEN [thrown |-> TRUE, error |-> handleErrorResponse(response)]
    ELSE IF ~Contains(response.contentType, "application/json")
    THEN [thrown |-> FALSE,
          value  |-> IF response.text # "" THEN [type |-> "string", text |-> response.text]
                     ELSE [type |-> "object", text |-> "{\n  \"success\": true\n}"]]
    ELSE IF ~response.jsonValid
    THEN [thrown |-> TRUE,
          error  |-> APIError("Network or request error", "Unexpected end of JSON input", 0)]
    ELSE [thrown |-> FALSE, value |-> [type |-> "object", text |-> response.text]]

\* what makeRequest does once fetch has rejected
AfterFetchRejected(reason) ==
    [thrown |-> TRUE, error |-> APIError("Network or request error", reason, 0)]

(***************************************************************************)
(* ToolGenerator.createMCPTool: the execute wrapper.                       *)
(***************************************************************************)
\* a value of type "object" carries its JSON.stringify(value, null, 2) text
formatResponse(value) == value.text

\* formatError that keeps the message only
formatError_messageOnly(error) == error.message

formatError(error) ==
    "Error " \o ToString(error.statusCode) \o ": " \o error.message
    \o "\n\nDetails: " \o error.error

\* a catch clause that wraps every error, scope violations included
ExecuteCatch_wrapAll(error) ==
    [name |-> "Error",
     message |-> IF error.name = "ScopeViolationError" THEN error.message
                 ELSE formatError(error)]

\* the catch clause of execute: what the caller receives for a thrown error
ExecuteCatch(error) ==
    IF error.name = "ScopeViolationError"
    THEN error
    ELSE [name |-> "Error", message |-> formatError(error)]

(***************************************************************************)
(* Startup: detectTokenType (auth), detectImplicitScope, mergeScope and    *)
(* validateScope (scope), getAccessMessages and createConfirmAccessTool    *)
(* (access-warnings) and the filters of startAuthenticatedServer.  An      *)
(* object with optional fields is a function from the keys whose value is  *)
(* not undefined.                                                          *)
(***************************************************************************)
\* token.split("."): the pieces between the dots, empty ones included
RECURSIVE SplitOnDots(_)
SplitOnDots(s) ==
    LET i == FirstIndexOf(s, ".")
    IN IF i = 0 THEN <<s>>
       ELSE <<SubSeq(s, 1, i - 1)>> \o SplitOnDots(SubSeq(s, i + 1, Len(s)))

\* s.trim() is the empty string
IsBlank(s) == \A i \in 1..Len(s) : CharAt(s, i) = " "

detectTokenType(token) ==
    IF IsBlank(token) \/ ~StartsWith(token, "dp.") THEN "unknown"
    ELSE LET parts == SplitOnDots(token)
         IN IF Len(parts) < 3 \/ parts[3] = "" THEN "unknown"
            ELSE CASE parts[2] = "st"   -> "service_token"
                   [] parts[2] = "sa"   -> "service_account"
                   [] parts[2] = "pt"   -> "personal"
                   [] parts[2] = "ct"   -> "cli"
                   [] parts[2] = "scim" -> "scim"
                   [] OTHER             -> "unknown"

\* AuthManager.validateToken(token).valid
validateToken(token) == token # "" /\ StartsWith(token, "dp.")

\* TokenCache.loadToken: the CachedToken, or nothing for undefined; env is
\* process.env, ring the keyring entry
loadToken(env, ring) ==
    IF Truthy(env, "DOPPLER_TOKEN")
    THEN <<[token |-> env.DOPPLER_TOKEN, apiHost |-> "https://api.doppler.com"]>>
    ELSE IF ring.available /\ Truthy(ring, "password")
    THEN <<[token |-> ring.password, apiHost |-> "https://api.doppler.com"]>>
    ELSE <<>>

\* a clearToken that leaves the keyring alone while DOPPLER_TOKEN is set
clearToken_unlessEnvironment(env, ring) ==
    IF ring.available /\ ~Truthy(env, "DOPPLER_TOKEN") THEN [available |-> TRUE] ELSE ring

\* TokenCache.clearToken: the keyring entry afterwards
clearToken(env, ring) ==
    IF ring.available THEN [available |-> TRUE] ELSE ring

\* DopplerClient.testConnection, once makeRequest has returned or thrown
testConnection(result) ==
    IF result.thrown
    THEN [success |-> FALSE,
          error |-> "Connection test failed: " \o result.error.message
                    \o " (Status: " \o ToString(result.error.statusCode) \o ")"]
    ELSE [success |-> TRUE]

\* detectImplicitScope that takes the first project of any non-empty list
ScopeAfterProjects_first(projects) ==
    IF Len(projects) = 0 THEN EmptyObject ELSE [project |-> projects[1].slug]

\* detectImplicitScope once listProjects has answered: the scope so far
ScopeAfterProjects(projects) ==
    IF Len(projects) # 1 THEN EmptyObject ELSE [project |-> projects[1].slug]

\* detectImplicitScope that leaves the config out
ScopeAfterConfigs_projectOnly(found, configs) == found

\* detectImplicitScope once listConfigs has answered
ScopeAfterConfigs(found, configs) ==
    IF Len(configs) = 1 THEN Assign(found, [config |-> configs[1].name]) ELSE found

\* cliArgs.project !== undefined && cliArgs.project !== detected.project
projectChanged(detected, cliArgs) ==
    /\ Has(cliArgs, "project")
    /\ (~Has(detected, "project") \/ cliArgs.project # detected.project)

\* mergeScope that keeps the detected config under a CLI project
mergeScope_keepConfig(detected, cliArgs) ==
    LET effectiveProject ==
            IF Has(cliArgs, "project") THEN [project |-> cliArgs.project]
            ELSE IF Has(detected, "project") THEN [project |-> detected.project]
            ELSE EmptyObject
        effectiveConfig ==
            IF Has(cliArgs, "config") THEN [config |-> cliArgs.config]
            ELSE IF Has(detected, "config") THEN [config |-> detected.config]
            ELSE EmptyObject
    IN Assign(effectiveProject, effectiveConfig)

mergeScope(detected, cliArgs) ==
    LET effectiveProject ==
            IF Has(cliArgs, "project") THEN [project |-> cliArgs.project]
            ELSE IF Has(detected, "project") THEN [project |-> detected.project]
            ELSE EmptyObject
        effectiveConfig ==
            IF Has(cliArgs, "config") THEN [config |-> cliArgs.config]
            ELSE IF ~projectChanged(detected, cliArgs) /\ Has(detected, "config")
            THEN [config |-> detected.config]
            ELSE EmptyObject
    IN Assign(effectiveProject, effectiveConfig)

\* validateScope that accepts a config without any project
validateScope_lenient(detected, cliArgs) == <<>>

\* validateScope: the error it throws, if any
validateScope(detected, cliArgs) ==
    IF ~Has(cliArgs, "config") THEN <<>>
    ELSE IF ~Has(cliArgs, "project") /\ ~Has(detected, "project")
    THEN <<[name |-> "Error",
            message |-> "--config requires --project (your token has access to multiple projects)"]>>
    ELSE <<>>

\* cliScope of startAuthenticatedServer
cliScope(options) == [k \in DOMAIN options \cap {"project", "config"} |-> options[k]]

\* scopeOptions of startAuthenticatedServer
scopeOptions(options, detectedScope, effectiveScope) ==
    LET source(d) ==
            IF Truthy(options, d) THEN [k \in {d \o "Source"} |-> "cli"]
            ELSE IF Truthy(detectedScope, d) THEN [k \in {d \o "Source"} |-> "token"]
            ELSE EmptyObject
    IN Assign(effectiveScope, Assign(source("project"), source("config")))

ORG_LEVEL_ENDPOINT_PREFIXES == {"/v3/workplace", "/v3/logs"}

IsGet(tool) == tool.method = "GET"

IsNotOrgLevel(tool) ==
    ~\E prefix \in ORG_LEVEL_ENDPOINT_PREFIXES : StartsWith(tool.endpoint, prefix)

IsConfigRelated(tool) ==
    \/ Contains(tool.endpoint, "/configs/")
    \/ Contains(tool.name, "config")
    \/ Contains(tool.endpoint, "/secrets/")
    \/ Contains(tool.name, "secret")

\* FilterTools without the read-only filter
FilterTools_allMethods(options, effectiveScope, dopplerTools) ==
    LET inProject == IF Truthy(effectiveScope, "project")
                     THEN SelectSeq(dopplerTools, IsNotOrgLevel) ELSE dopplerTools
    IN IF Truthy(effectiveScope, "config")
       THEN SelectSeq(inProject, IsConfigRelated) ELSE inProject

\* dopplerTools after the three filters of startAuthenticatedServer
FilterTools(options, effectiveScope, dopplerTools) ==
    LET readable == IF options.readOnly THEN SelectSeq(dopplerTools, IsGet)
                    ELSE dopplerTools
        inProject == IF Truthy(effectiveScope, "project")
                     THEN SelectSeq(readable, IsNotOrgLevel) ELSE readable
    IN IF Truthy(effectiveScope, "config")
       THEN SelectSeq(inProject, IsConfigRelated) ELSE inProject

isProductionConfig(config) ==
    /\ ~IsBlank(config)
    /\ LET c == ToLowerCase(config)
       IN \/ c \in {"prod", "prd", "production", "live"}
          \/ \E suffix \in {"_prod", "_prd", "_production", "-prod", "-prd", "-production"} :
                 EndsWith(c, suffix)

TOKEN_TYPE_LABELS ==
    [service_token   |-> "service token (project-scoped)",
     service_account |-> "service account",
     personal        |-> "personal token",
     cli             |-> "CLI token",
     scim            |-> "SCIM token",
     unknown         |-> "unknown"]

\* the emoji of a level, by its name: every message of getAccessMessages
\* carries the information sign, the warning sign or the rotating light
EmojiOf(level) ==
    CASE level = "info"     -> "(i)"
      [] level = "warning"  -> "(!)"
      [] level = "critical" -> "(!!)"

AccessMessage(level, message) ==
    [level |-> level, emoji |-> EmojiOf(level), message |-> message]

\* push the message when the condition holds
PushIf(condition, level, message) ==
    IF condition THEN <<AccessMessage(level, message)>> ELSE <<>>

\* getAccessMessages without the warning of a missing project filter
getAccessMessages_noProjectWarning(ctx) ==
    <<AccessMessage("info", "Token type: " \o TOKEN_TYPE_LABELS[ctx.tokenType])>>
    \o (IF Truthy(ctx, "project")
        THEN <<AccessMessage("info", "Project: " \o ctx.project)>> ELSE <<>>)
    \o (IF Truthy(ctx, "config")
        THEN <<AccessMessage("info", "Config: " \o ctx.config)>> ELSE <<>>)
    \o PushIf(ctx.readOnly, "info", "Mode: read-only")
    \o PushIf(ctx.tokenType = "unknown", "critical",
              "UNKNOWN TOKEN TYPE - exercise extreme caution")
    \o PushIf(ctx.tokenType = "scim", "critical",
              "SCIM TOKEN - intended for user provisioning, not secrets access")
    \o (IF Truthy(ctx, "config") /\ isProductionConfig(ctx.config)
        THEN <<AccessMessage("critical", "PRODUCTION CONFIG: " \o ctx.config)>> ELSE <<>>)
    \o PushIf(~ctx.readOnly, "warning",
              "Write tools exposed - use caution when modifying secrets")

getAccessMessages(ctx) ==
    <<AccessMessage("info", "Token type: " \o TOKEN_TYPE_LABELS[ctx.tokenType])>>
    \o (IF Truthy(ctx, "project")
        THEN <<AccessMessage("info", "Project: " \o ctx.project)>> ELSE <<>>)
    \o (IF Truthy(ctx, "config")
        THEN <<AccessMessage("info", "Config: " \o ctx.config)>> ELSE <<>>)
    \o PushIf(ctx.readOnly, "info", "Mode: read-only")
    \o PushIf(ctx.tokenType = "unknown", "critical",
              "UNKNOWN TOKEN TYPE - exercise extreme caution")
    \o PushIf(ctx.tokenType = "scim", "critical",
              "SCIM TOKEN - intended for user provisioning, not secrets access")
    \o (IF Truthy(ctx, "config") /\ isProductionConfig(ctx.config)
        THEN <<AccessMessage("critical", "PRODUCTION CONFIG: " \o ctx.config)>> ELSE <<>>)
    \o PushIf(~ctx.readOnly, "warning",
              "Write tools exposed - use caution when modifying secrets")
    \o PushIf(~Truthy(ctx, "project"), "warning", "No project filter applied")

IsActionable(m) == m.level \in {"warning", "critical"}

IsInfo(m) == m.level = "info"

\* messages.map((m) => `  ${m.emoji} ${m.message}`).join("\n")
RECURSIVE MessageLines(_)
MessageLines(messages) ==
    IF messages = <<>> THEN ""
    ELSE "  " \o Head(messages).emoji \o " " \o Head(messages).message
         \o (IF Len(messages) > 1 THEN "\n" ELSE "")
         \o MessageLines(Tail(messages))

\* what execute of the confirm_access tool returns
ConfirmationText(scopeLines, warningLines) ==
    "<security_confirmation required=\"true\">\n<instructions>\n"
    \o "Before proceeding with any Doppler operations, you must obtain explicit user consent.\n"
    \o "Display the access summary below to the user VERBATIM - do not summarize or rephrase.\n"
    \o "The emojis and formatting are intentional for scannability.\n"
    \o "</instructions>\n\n<display_to_user>\nCurrent access scope:\n"
    \o scopeLines
    \o "\n\nWarnings requiring confirmation:\n"
    \o warningLines
    \o "\n</display_to_user>\n\n<then>\n"
    \o "Ask the user: \"Do you want me to proceed?\"\n"
    \o "Wait for explicit confirmation (e.g., \"yes\", \"proceed\", \"go ahead\") before calling any other Doppler tools.\n"
    \o "</then>\n</security_confirmation>"

\* createConfirmAccessTool: the tool, or nothing for null; execute is kept
\* as the text it returns, the description without the stop sign it opens with
createConfirmAccessTool(ctx) ==
    LET messages          == getAccessMessages(ctx)
        infoMessages      == SelectSeq(messages, IsInfo)
        actionableMessages == SelectSeq(messages, IsActionable)
    IN IF Len(actionableMessages) = 0 THEN <<>>
       ELSE <<[name |-> "confirm_access",
               description |-> "REQUIRED FIRST STEP: Call before any other Doppler tool. "
                   \o "Returns access level warnings that must be shown to the user for confirmation.",
               execute |-> [returns |-> ConfirmationText(MessageLines(infoMessages),
                                                        MessageLines(actionableMessages))]]>>

\* accessContext of startAuthenticatedServer
accessContext(tokenType, options, effectiveScope) ==
    Assign([tokenType |-> tokenType, readOnly |-> options.readOnly], effectiveScope)

(***************************************************************************)
(* The inputs of the model.                                                *)
(***************************************************************************)
Long31 == "abcdefghijklmnopqrstuvwxyzabcde"
Long63 == "abcdefghijklmnopqrstuvwxyzabcdeabcdefghijklmnopqrstuvwxyzabcdef"

\* paths: an optional /v3 prefix and up to MaxSegs segments
Segments == {"configs", "{config}", "review", "x-", "_", Long31, Long63}

RECURSIVE PathsOf(_)
PathsOf(n) ==
    IF n = 0 THEN {""}
    ELSE PathsOf(n - 1) \cup {p \o "/" \o seg : p \in PathsOf(n - 1), seg \in Segments}

Paths == {prefix \o p : prefix \in {"", "/v3"}, p \in PathsOf(MaxSegs)} \ {""}

Methods == {"get", "post", "put", "patch", "delete", "options"}

\* operation identifiers: up to MaxIdChunks pieces
IdChunks == {"secrets", "-", "_", "get_", "{id}", Long63}

RECURSIVE IdsOf(_)
IdsOf(n) ==
    IF n = 0 THEN {""}
    ELSE IdsOf(n - 1) \cup {id \o chunk : id \in IdsOf(n - 1), chunk \in IdChunks}

OperationIds == IdsOf(MaxIdChunks) \ {""}

\* every method and path under an identifier that is ugly, and every
\* identifier under one method and path
NamerInputs ==
    {[method |-> m, path |-> p, operationId |-> "get_v3configs"] : m \in Methods, p \in Paths}
    \cup {[method |-> "get", path |-> "/v3/configs", operationId |-> id] : id \in OperationIds}

\* field schemas
StringSchema  == [type |-> "string"]
IntegerSchema == [type |-> "integer"]
SecretsSchema ==
    [type |-> "object",
     properties |-> [EXAMPLE_KEY |-> StringSchema,
                     inner |-> [type |-> "object", properties |-> [known |-> StringSchema]]]]
ItemsSchema ==
    [type |-> "array",
     items |-> [type |-> "object", properties |-> [id |-> StringSchema], required |-> {"id"}]]

Param(name, in, required, schema) ==
    [name |-> name, in |-> in, required |-> required, schema |-> schema]

JsonBody(schema) ==
    [content |-> <<[contentType |-> "application/json", schema |-> schema]>>]

Operation(path, method, operationId, deprecated, parameters, requestBody) ==
    [path |-> path, method |-> method,
     operation |-> [operationId |-> operationId, summary |-> "", description |-> "",
                    deprecated |-> deprecated, parameters |-> parameters,
                    requestBody |-> requestBody]]

Catalogue ==
    { Operation("/v3/configs", "get", "get_v3configs", FALSE,
                <<Param("project", "query", TRUE, StringSchema),
                  Param("page", "query", FALSE, IntegerSchema)>>, Undefined),
      Operation("/v3/configs", "post", "post_v3configs", FALSE,
                <<Param("project", "query", TRUE, StringSchema)>>,
                JsonBody([type |-> "object",
                          properties |-> [project |-> StringSchema, name |-> StringSchema],
                          required |-> {"name"}])),
      Operation("/v3/configs/config/secrets", "post", "post_v3configs_secrets", FALSE,
                <<Param("project", "query", TRUE, StringSchema)>>,
                JsonBody([type |-> "object",
                          properties |-> [secrets |-> SecretsSchema, items |-> ItemsSchema]])),
      Operation("/v3/configs/config", "put", "put_v3configs_config", FALSE,
                <<Param("project", "query", TRUE, StringSchema)>>, Undefined),
      Operation("/v3/configs/config", "patch", "patch_v3configs_config", FALSE,
                <<Param("project", "query", TRUE, StringSchema)>>, Undefined),
      Operation("/v3/configs/config/secret", "get", "secret-get", TRUE,
                <<Param("name", "query", TRUE, StringSchema)>>, Undefined),
      Operation("/v3/workplace", "get", "workplace-get", FALSE, <<>>, Undefined),
      Operation("/v3/status", "get", "", FALSE, <<>>, Undefined),
      Operation("/v3/projects/{project}", "get", "projects{project}",  FALSE,
                <<Param("project", "path", TRUE, [type |-> "string", pattern |-> "["])>>,
                Undefined) }

\* the entries of one document: distinct, the methods of a path together
IsDocument(entries) ==
    /\ \A i, j \in 1..Len(entries) : i # j => entries[i] # entries[j]
    /\ \A i, j, k \in 1..Len(entries) :
           i < j /\ j < k /\ entries[i].path = entries[k].path
               => entries[j].path = entries[i].path

Documents ==
    {entries \in UNION {[1..n -> Catalogue] : n \in 0..MaxOps} : IsDocument(entries)}

\* invocation inputs offered to a validator
InputKeys == {"project", "page", "secrets", "items", "name"}

InputValues ==
    { Str("x"),
      Num(1),
      Obj([A |-> Str("1"), B |-> Str("2"), inner |-> Obj([deep |-> Str("d")])]),
      Arr(<<Obj([id |-> Str("i"), extra |-> Num(1)])>>) }

ValidatorInputs == UNION {[keys -> InputValues] : keys \in SUBSET InputKeys}

(***************************************************************************)
(* The state machines.                                                     *)
(***************************************************************************)
NamerIdle      == [pc |-> "off"]
CompilerIdle   == [pc |-> "off"]
ValidationIdle == [pc |-> "off"]
NoScope        == [k \in {} |-> ""]
NoInvocations  == [c \in {} |-> [pc |-> "off"]]
ServerIdle     == [pc |-> "off"]
MergeIdle      == [pc |-> "off"]
KeyringIdle    == [available |-> FALSE]
NoSession      == <<>>
PollingIdle    == [pc |-> "off"]

\* one call of generateToolName
InitNamer ==
    /\ \E in \in NamerInputs : namer = [pc |-> "ready", in |-> in]
    /\ compiler = CompilerIdle
    /\ validation = ValidationIdle
    /\ scope = NoScope
    /\ merging = MergeIdle
    /\ keyring = KeyringIdle
    /\ session = NoSession
    /\ polling = PollingIdle
    /\ server = ServerIdle
    /\ invocations = NoInvocations

GenerateToolName ==
    /\ namer.pc = "ready"
    /\ namer' = [pc |-> "done", in |-> namer.in,
                 name |-> generateToolName(namer.in.method, namer.in.path,
                                           namer.in.operationId)]
    /\ UNCHANGED <<compiler, validation, scope, invocations, server, merging, keyring, session, polling>>

NextNamer == GenerateToolName

SpecNamer == InitNamer /\ [][NextNamer]_vars

\* one compile pass over one document
InitCompiler ==
    /\ \E entries \in Documents : compiler = [pc |-> "loaded", paths |-> entries]
    /\ namer = NamerIdle
    /\ validation = ValidationIdle
    /\ scope = NoScope
    /\ merging = MergeIdle
    /\ keyring = KeyringIdle
    /\ session = NoSession
    /\ polling = PollingIdle
    /\ server = ServerIdle
    /\ invocations = NoInvocations

ParseToTools ==
    /\ compiler.pc = "loaded"
    /\ compiler' = [pc |-> "compiled", paths |-> compiler.paths,
                    tools |-> parseToTools(compiler.paths)]
    /\ UNCHANGED <<namer, validation, scope, invocations, server, merging, keyring, session, polling>>

NextCompiler == ParseToTools

SpecCompiler == InitCompiler /\ [][NextCompiler]_vars

\* one compiled validator and one input checked against it
InitValidation ==
    /\ \E e \in Catalogue, input \in ValidatorInputs :
           /\ ~createInputSchemaThrows(e.operation)
           /\ validation = [pc |-> "ready", operation |-> e.operation,
                            inputSchema |-> createInputSchema(e.operation),
                            input |-> input]
    /\ namer = NamerIdle
    /\ compiler = CompilerIdle
    /\ scope = NoScope
    /\ merging = MergeIdle
    /\ keyring = KeyringIdle
    /\ session = NoSession
    /\ polling = PollingIdle
    /\ server = ServerIdle
    /\ invocations = NoInvocations

Validate ==
    /\ validation.pc = "ready"
    /\ validation' = [validation EXCEPT !.pc = "done"] @@
                     [result |-> ParseZod(validation.inputSchema, Obj(validation.input))]
    /\ UNCHANGED <<namer, compiler, scope, invocations, server, merging, keyring, session, polling>>

NextValidation == Validate

SpecValidation == InitValidation /\ [][NextValidation]_vars

(***************************************************************************)
(* The invocation engine: calls of a tool's execute.  A call runs without  *)
(* suspension from the scope guard to the call of fetch, and resumes when  *)
(* fetch settles.                                                          *)
(***************************************************************************)
Callers == {"c1"}

EmptyInput == [k \in {} |-> ""]

OptionalKey(key, values) == {EmptyInput} \cup {[k \in {key} |-> v] : v \in values}

ProjectScopes ==
    OptionalKey("project", {"p1"})
    \cup {[project |-> "p1", projectSource |-> src] : src \in {"cli", "token"}}

ConfigScopes ==
    OptionalKey("config", {"dev"})
    \cup {[config |-> "dev", configSource |-> src] : src \in {"cli", "token"}}

Scopes == {Assign(p, c) : p \in ProjectScopes, c \in ConfigScopes}

EngineInputs ==
    {Assign(Assign(p, c), Assign(n, x)) :
        p \in OptionalKey("project", {"", "p1", "p/2"}),
        c \in OptionalKey("config", {"", "dev", "prd"}),
        n \in OptionalKey("name", {"n"}),
        x \in OptionalKey("constructor", {"c"})}

TextBody == [content |-> <<[contentType |-> "text/plain", schema |-> StringSchema]>>]

EngineCatalogue ==
    { Operation("/v3/configs", "get", "get_v3configs", FALSE,
                <<Param("project", "query", TRUE, StringSchema),
                  Param("config", "query", FALSE, StringSchema)>>, Undefined),
      Operation("/v3/projects/{project}/configs/{config}", "delete", "configs-delete", FALSE,
                <<Param("project", "path", TRUE, StringSchema),
                  Param("config", "path", TRUE, StringSchema)>>, Undefined),
      Operation("/v3/configs/config/secrets", "post", "secrets-update", FALSE,
                <<Param("project", "query", TRUE, StringSchema),
                  Param("config", "query", TRUE, StringSchema)>>,
                JsonBody([type |-> "object", properties |-> [secrets |-> SecretsSchema]])),
      Operation("/v3/configs", "post", "configs-create", FALSE, <<>>,
                JsonBody([type |-> "object",
                          properties |-> [project |-> StringSchema, name |-> StringSchema]])),
      Operation("/v3/logs", "post", "logs-create", FALSE,
                <<Param("project", "header", FALSE, StringSchema),
                  Param("config", "cookie", FALSE, StringSchema)>>,
                JsonBody([type |-> "object", properties |-> [name |-> StringSchema]])),
      Operation("/v3/notes", "put", "notes-update", FALSE,
                <<Param("project", "query", TRUE, StringSchema)>>, TextBody),
      Operation("/v3/search", "get", "search-get", FALSE, <<>>,
                JsonBody([type |-> "object", properties |-> [name |-> StringSchema]])),
      Operation("/v3/workplace", "get", "workplace-get", FALSE, <<>>, Undefined) }

EngineTools == {createToolFromOperation(e.path, e.method, e.operation) : e \in EngineCatalogue}

HttpResponse(ok, status, statusText, contentType, jsonValid, json, text) ==
    [ok |-> ok, status |-> status, statusText |-> statusText, contentType |-> contentType,
     jsonValid |-> jsonValid, json |-> json, text |-> text]

Responses ==
    { HttpResponse(TRUE, 200, "OK", "application/json; charset=utf-8", TRUE, EmptyInput,
                   "{\n  \"success\": true\n}"),
      HttpResponse(TRUE, 200, "OK", "application/json", FALSE, EmptyInput, "<html>"),
      HttpResponse(TRUE, 200, "OK", "text/plain", FALSE, EmptyInput, ""),
      HttpResponse(TRUE, 200, "OK", "text/plain", FALSE, EmptyInput, "KEY=value"),
      HttpResponse(FALSE, 404, "Not Found", "application/json", TRUE,
                   [message |-> "Could not find requested config"],
                   "{\n  \"message\": \"Could not find requested config\"\n}"),
      HttpResponse(FALSE, 403, "Forbidden", "application/json", TRUE,
                   [messages |-> "Forbidden, Read-only token"],
                   "{\n  \"messages\": [\n    \"Forbidden\",\n    \"Read-only token\"\n  ]\n}"),
      HttpResponse(FALSE, 500, "Internal Server Error", "text/html", FALSE, EmptyInput,
                   "<h1>oops</h1>") }

RejectionReasons == {"fetch failed"}

Idle == [pc |-> "idle"]

Init ==
    /\ scope \in Scopes
    /\ merging = MergeIdle
    /\ keyring = KeyringIdle
    /\ session = NoSession
    /\ polling = PollingIdle
    /\ server = ServerIdle
    /\ invocations = [c \in Callers |-> Idle]
    /\ namer = NamerIdle
    /\ compiler = CompilerIdle
    /\ validation = ValidationIdle

\* ExecuteOn of a generator that keeps the project of an input as its scope
ExecuteOn_adoptProject(c, tools, inputs) ==
    /\ invocations[c].pc = "idle"
    /\ \E tool \in tools, args \in inputs :
           LET thrown == ScopeGuard(scope, args)
               input  == InjectScope(scope, tool, args)
               call   == [tool |-> tool, args |-> args, requests |-> <<>>,
                          fetches |-> <<>>, settled |-> <<>>]
           IN /\ invocations' = [invocations EXCEPT ![c] =
                  IF thrown # <<>>
                  THEN call @@ [pc |-> "done", input |-> args, raised |-> thrown,
                                outcome |-> [kind |-> "thrown",
                                             error |-> ExecuteCatch(thrown[1])]]
                  ELSE [call EXCEPT !.requests = <<BuildRequest(tool, input)>>,
                                    !.fetches = <<FetchCall(BuildRequest(tool, input))>>]
                       @@ [pc |-> "fetching", input |-> input, raised |-> <<>>]]
              /\ scope' = IF ~Truthy(scope, "project") /\ Truthy(args, "project")
                          THEN Assign(scope, [k \in {"project"} |-> args["project"]])
                          ELSE scope
    /\ UNCHANGED <<namer, compiler, validation, server, merging, keyring, session, polling>>

\* execute(input) up to its first suspension: the guard, then the request;
\* the tool and the input are drawn from the given sets
ExecuteOn(c, tools, inputs) ==
    /\ invocations[c].pc = "idle"
    /\ \E tool \in tools, args \in inputs :
           LET thrown == ScopeGuard(scope, args)
               input  == InjectScope(scope, tool, args)
               call   == [tool |-> tool, args |-> args, requests |-> <<>>,
                          fetches |-> <<>>, settled |-> <<>>]
           IN invocations' = [invocations EXCEPT ![c] =
                  IF thrown # <<>>
                  THEN call @@ [pc |-> "done", input |-> args, raised |-> thrown,
                                outcome |-> [kind |-> "thrown",
                                             error |-> ExecuteCatch(thrown[1])]]
                  ELSE [call EXCEPT !.requests = <<BuildRequest(tool, input)>>,
                                    !.fetches = <<FetchCall(BuildRequest(tool, input))>>]
                       @@ [pc |-> "fetching", input |-> input, raised |-> <<>>]]
    /\ UNCHANGED <<scope, namer, compiler, validation, server, merging, keyring, session, polling>>

Execute(c) == ExecuteOn(c, EngineTools, EngineInputs)

\* the rest of execute once makeRequest has returned or thrown
Settle(call, result, settledWith) ==
    [tool |-> call.tool, args |-> call.args, input |-> call.input,
     requests |-> call.requests, fetches |-> call.fetches,
     settled |-> <<settledWith>>, pc |-> "done",
     raised  |-> IF result.thrown THEN <<result.error>> ELSE <<>>,
     outcome |-> IF result.thrown
                 THEN [kind |-> "thrown", error |-> ExecuteCatch(result.error)]
                 ELSE [kind |-> "returned", text |-> formatResponse(result.value)]]

\* fetch resolves with an HTTP response
FetchResolves(c) ==
    /\ invocations[c].pc = "fetching"
    /\ \E response \in Responses :
           invocations' = [invocations EXCEPT ![c] =
               Settle(invocations[c], AfterFetch(response),
                      [resolved |-> TRUE, ok |-> response.ok, response |-> response])]
    /\ UNCHANGED <<scope, namer, compiler, validation, server, merging, keyring, session, polling>>

\* a collaborator that re-issues the request when fetch rejects
FetchRejects_retry(c) ==
    /\ invocations[c].pc = "fetching"
    /\ Len(invocations[c].fetches) < 2
    /\ invocations' = [invocations EXCEPT
           ![c].fetches = Append(@, FetchCall(invocations[c].requests[1]))]
    /\ UNCHANGED <<scope, namer, compiler, validation, server, merging, keyring, session, polling>>

\* fetch rejects: no HTTP response was obtained
FetchRejects(c) ==
    /\ invocations[c].pc = "fetching"
    /\ \E reason \in RejectionReasons :
           invocations' = [invocations EXCEPT ![c] =
               Settle(invocations[c], AfterFetchRejected(reason),
                      [resolved |-> FALSE, ok |-> FALSE, reason |-> reason])]
    /\ UNCHANGED <<scope, namer, compiler, validation, server, merging, keyring, session, polling>>

Next == \E c \in Callers : Execute(c) \/ FetchResolves(c) \/ FetchRejects(c)

Spec == Init /\ [][Next]_vars

(***************************************************************************)
(* Concurrent invocations: several calls of execute on one ToolGenerator,  *)
(* each with an input object of its own.  A call runs to its await of      *)
(* fetch in one step; the calls suspended there resume in any order.       *)
(***************************************************************************)
ConcurrentCallers == {"c1", "c2"}

ConcurrentTools ==
    {tool \in EngineTools : tool.name \in {"configs_list", "configs_delete", "configs_create"}}

ConcurrentInputs ==
    {Assign(p, n) : p \in OptionalKey("project", {"p1", "p/2"}),
                    n \in OptionalKey("name", {"n"})}

ConcurrentScopes ==
    {EmptyInput, [project |-> "p1", projectSource |-> "cli"],
     [project |-> "p1", projectSource |-> "token", config |-> "dev", configSource |-> "token"]}

InitConcurrent ==
    /\ scope \in ConcurrentScopes
    /\ merging = MergeIdle
    /\ keyring = KeyringIdle
    /\ session = NoSession
    /\ polling = PollingIdle
    /\ server = ServerIdle
    /\ invocations = [c \in ConcurrentCallers |-> Idle]
    /\ namer = NamerIdle
    /\ compiler = CompilerIdle
    /\ validation = ValidationIdle

ExecuteConcurrently(c) == ExecuteOn(c, ConcurrentTools, ConcurrentInputs)

NextConcurrent ==
    \E c \in ConcurrentCallers : ExecuteConcurrently(c) \/ FetchResolves(c) \/ FetchRejects(c)

SpecConcurrent == InitConcurrent /\ [][NextConcurrent]_vars

(***************************************************************************)
(* Startup: one run of startAuthenticatedServer.  Its suspension points    *)
(* are the awaits of testConnection, listProjects and listConfigs; what    *)
(* follows the last of them runs in the same step.                         *)
(***************************************************************************)
\* DOPPLER_TOKEN, when set; the last one fails validateToken
EnvTokens == {"dp.st.abc", "dp.pt.abc", "garbage"}

\* the password of the keyring entry, when there is one
KeyringTokens == {"dp.sa.abc", "dp.scim.abc", "dp.abc"}

KeyringEntries ==
    {[available |-> FALSE], [available |-> TRUE]}
    \cup {[available |-> TRUE, password |-> token] : token \in KeyringTokens}

CliOptions ==
    {Assign([readOnly |-> r], Assign(p, c)) :
        r \in BOOLEAN,
        p \in OptionalKey("project", {"", "p1", "p2"}),
        c \in OptionalKey("config", {"dev", "prd"})}

ProjectLists == {<<>>, <<[slug |-> "p1"]>>, <<[slug |-> "p1"], [slug |-> "p2"]>>}

ConfigLists ==
    {<<>>, <<[name |-> "dev", slug |-> "dev"]>>,
     <<[name |-> "dev", slug |-> "dev"], [name |-> "prd", slug |-> "prd"]>>}

\* doppler-openapi.json, cut down to one operation of each kind
StartupDocument ==
    << Operation("/v3/workplace", "get", "workplace-get", FALSE, <<>>, Undefined),
       Operation("/v3/projects", "get", "projects-list", FALSE, <<>>, Undefined),
       Operation("/v3/projects", "post", "projects-create", FALSE, <<>>,
                 JsonBody([type |-> "object", properties |-> [name |-> StringSchema]])),
       Operation("/v3/configs", "get", "get_v3configs", FALSE,
                 <<Param("project", "query", TRUE, StringSchema)>>, Undefined),
       Operation("/v3/configs", "options", "configs-options", FALSE, <<>>, Undefined),
       Operation("/v3/configs/config", "put", "put_v3configs_config", FALSE,
                 <<Param("project", "query", TRUE, StringSchema),
                   Param("config", "query", TRUE, StringSchema)>>, Undefined),
       Operation("/v3/configs/config", "delete", "configs-delete", FALSE,
                 <<Param("project", "query", TRUE, StringSchema),
                   Param("config", "query", TRUE, StringSchema)>>, Undefined),
       Operation("/v3/configs/config/secrets", "get", "secrets-list", FALSE,
                 <<Param("project", "query", TRUE, StringSchema),
                   Param("config", "query", TRUE, StringSchema)>>, Undefined),
       Operation("/v3/configs/config/secrets", "post", "secrets-update", FALSE,
                 <<Param("project", "query", TRUE, StringSchema),
                   Param("config", "query", TRUE, StringSchema)>>,
                 JsonBody([type |-> "object", properties |-> [secrets |-> SecretsSchema]])),
       Operation("/v3/configs/config/secret", "patch", "secret-note", TRUE, <<>>, Undefined),
       Operation("/v3/logs", "get", "logs-list", FALSE, <<>>, Undefined) >>

\* ToolGenerator.createMCPTool: execute closes over the DopplerTool
createMCPTool(dopplerTool) ==
    [name |-> dopplerTool.name, description |-> dopplerTool.description,
     parameters |-> dopplerTool.inputSchema, execute |-> [dopplerTool |-> dopplerTool]]

generateTools(dopplerTools) ==
    [i \in 1..Len(dopplerTools) |-> createMCPTool(dopplerTools[i])]

InitStartup ==
    /\ \E options \in CliOptions, env \in OptionalKey("DOPPLER_TOKEN", EnvTokens),
          projects \in ProjectLists, configs \in ConfigLists :
           server = [pc |-> "launched", options |-> options, env |-> env,
                     openApiSpec |-> StartupDocument,
                     api |-> [projects |-> projects, configs |-> configs],
                     scopeCalls |-> <<>>]
    /\ keyring \in KeyringEntries
    /\ scope = NoScope
    /\ merging = MergeIdle
    /\ session = NoSession
    /\ polling = PollingIdle
    /\ invocations = NoInvocations
    /\ namer = NamerIdle
    /\ compiler = CompilerIdle
    /\ validation = ValidationIdle

\* the fields of the run that every later position keeps
Carried == [k \in DOMAIN server \ {"pc", "found"} |-> server[k]]

\* createDopplerMCPServer up to the call of startAuthenticatedServer: the
\* token is loaded and its format checked; without a token, or with one of
\* a wrong format, the process exits
LoadToken ==
    /\ server.pc = "launched"
    /\ LET cachedToken == loadToken(server.env, keyring)
       IN IF cachedToken = <<>>
          THEN /\ server' = Carried @@ [pc |-> "exited", exitCode |-> 1]
               /\ keyring' = keyring
          ELSE IF ~validateToken(cachedToken[1].token)
          THEN /\ server' = Carried @@ [pc |-> "exited", exitCode |-> 1,
                                        token |-> cachedToken[1].token]
               /\ keyring' = clearToken(server.env, keyring)
          ELSE /\ server' = Carried @@ [pc |-> "connecting",
                                        token |-> cachedToken[1].token]
               /\ keyring' = keyring
    /\ UNCHANGED <<scope, namer, compiler, validation, invocations, merging,
                   session, polling>>

\* startAuthenticatedServer from validateScope to its return, with the scope
\* that was detected; an error thrown here ends the process in the catch of
\* createDopplerMCPServer.  api is what the token can access at the Doppler
\* API, scopeCalls the calls detectImplicitScope has made to its client.
Configure(detectedScope) ==
    LET options        == server.options
        tokenType      == detectTokenType(server.token)
        thrown         == validateScope(detectedScope, cliScope(options))
        effectiveScope == mergeScope(detectedScope, cliScope(options))
        dopplerTools   == FilterTools(options, effectiveScope,
                                      parseToTools(server.openApiSpec))
        confirmAccessTool ==
            createConfirmAccessTool(accessContext(tokenType, options, effectiveScope))
        run == Carried @@ [tokenType |-> tokenType, detectedScope |-> detectedScope]
    IN IF thrown # <<>>
       THEN /\ server' = run @@ [pc |-> "exited", error |-> thrown[1], exitCode |-> 1]
            /\ scope' = scope
       ELSE /\ server' = run @@
                [pc |-> "started", effectiveScope |-> effectiveScope,
                 mcp |-> [name  |-> IF options.readOnly THEN "doppler-api-readonly"
                                    ELSE "doppler-api",
                          tools |-> confirmAccessTool \o generateTools(dopplerTools)],
                 result |-> [success |-> TRUE]]
            /\ scope' = scopeOptions(options, detectedScope, effectiveScope)

\* the ways the fetch of the connection test can settle; /v3/me answers in JSON
ConnectionOutcomes ==
    {[resolved |-> TRUE, ok |-> response.ok, response |-> response] :
        response \in {r \in Responses : Contains(r.contentType, "application/json")}}
    \cup {[resolved |-> FALSE, ok |-> FALSE, reason |-> reason] : reason \in RejectionReasons}

\* await client.testConnection(): when it did not succeed,
\* startAuthenticatedServer returns invalid_token and createDopplerMCPServer
\* clears the token and exits
TestConnection ==
    /\ server.pc = "connecting"
    /\ \E outcome \in ConnectionOutcomes :
           LET result == IF outcome.resolved THEN AfterFetch(outcome.response)
                         ELSE AfterFetchRejected(outcome.reason)
               connectionTest == testConnection(result)
               connected == [k \in DOMAIN server |-> server[k]] @@
                            [connection |-> [resolved |-> outcome.resolved,
                                             ok |-> outcome.ok]]
           IN IF ~connectionTest.success
              THEN /\ server' = [connected EXCEPT !.pc = "exited"] @@
                                [result |-> [success |-> FALSE, reason |-> "invalid_token"],
                                 exitCode |-> 1]
                   /\ keyring' = clearToken(server.env, keyring)
                   /\ scope' = scope
              ELSE IF detectTokenType(server.token) = "service_token"
              THEN /\ server' = [connected EXCEPT
                                    !.pc = "listingProjects",
                                    !.scopeCalls = <<[method |-> "listProjects"]>>]
                   /\ keyring' = keyring
                   /\ scope' = scope
              ELSE /\ Configure(EmptyObject)
                   /\ keyring' = keyring
    /\ UNCHANGED <<namer, compiler, validation, invocations, merging, session, polling>>

\* detectImplicitScope: await client.listProjects()
ListProjects ==
    /\ server.pc = "listingProjects"
    /\ LET projects == server.api.projects
       IN IF Len(projects) # 1
          THEN Configure(ScopeAfterProjects(projects))
          ELSE /\ server' = [server EXCEPT
                                !.pc = "listingConfigs",
                                !.scopeCalls = @ \o <<[method  |-> "listConfigs",
                                                       project |-> projects[1].slug]>>]
                            @@ [found |-> ScopeAfterProjects(projects)]
               /\ scope' = scope
    /\ UNCHANGED <<namer, compiler, validation, invocations, merging, keyring, session, polling>>

\* detectImplicitScope: await client.listConfigs(scope.project)
ListConfigs ==
    /\ server.pc = "listingConfigs"
    /\ Configure(ScopeAfterConfigs(server.found, server.api.configs))
    /\ UNCHANGED <<namer, compiler, validation, invocations, merging, keyring, session, polling>>

\* listProjects or listConfigs rejects: makeRequest threw an APIError
ListingFails ==
    /\ server.pc \in {"listingProjects", "listingConfigs"}
    /\ \E response \in {r \in Responses : ~r.ok} :
           server' = Carried @@ [pc |-> "exited",
                                 error |-> handleErrorResponse(response), exitCode |-> 1]
    /\ UNCHANGED <<scope, namer, compiler, validation, invocations, merging, keyring, session, polling>>

NextStartup ==
    LoadToken \/ TestConnection \/ ListProjects \/ ListConfigs \/ ListingFails

SpecStartup == InitStartup /\ [][NextStartup]_vars

(***************************************************************************)
(* One call of mergeScope, on any detected scope and any CLI arguments.    *)
(***************************************************************************)
DetectedScopes ==
    {EmptyInput, [project |-> "p1"], [project |-> "p1", config |-> "dev"],
     [project |-> "p2", config |-> "prd"]}

CliScopeArgs ==
    {Assign(p, c) : p \in OptionalKey("project", {"", "p1", "p2"}),
                    c \in OptionalKey("config", {"", "dev", "prd"})}

InitMerge ==
    /\ \E detected \in DetectedScopes, cliArgs \in CliScopeArgs :
           merging = [pc |-> "called", detected |-> detected, cliArgs |-> cliArgs]
    /\ scope = NoScope
    /\ server = ServerIdle
    /\ keyring = KeyringIdle
    /\ session = NoSession
    /\ polling = PollingIdle
    /\ invocations = NoInvocations
    /\ namer = NamerIdle
    /\ compiler = CompilerIdle
    /\ validation = ValidationIdle

MergeScope ==
    /\ merging.pc = "called"
    /\ merging' = [merging EXCEPT !.pc = "returned"] @@
                  [effective |-> mergeScope(merging.detected, merging.cliArgs)]
    /\ UNCHANGED <<namer, compiler, validation, scope, invocations, server,
                 keyring, session, polling>>

NextMerge == MergeScope

SpecMerge == InitMerge /\ [][NextMerge]_vars

(***************************************************************************)
(* Properties of startup (specification SpecStartup).                      *)
(***************************************************************************)
ServerCreated == server.pc = "started"

\* the tools registered with the server that call the API
ApiTools == SelectSeq(server.mcp.tools, LAMBDA t : t.name # "confirm_access")

\* C18: when the server is started in read-only mode, every API tool
\* registered with it has the method GET, whatever the project or config
\* scope in effect; none has POST, PUT, PATCH or DELETE.
C18_ReadOnlyOnlyGet ==
    (ServerCreated /\ server.options.readOnly)
        => \A i \in 1..Len(ApiTools) :
               /\ ApiTools[i].execute.dopplerTool.method = "GET"
               /\ ApiTools[i].execute.dopplerTool.method \notin MutatingMethods

\* a read-only server under a project and a config scope that has tools
C18_Witness ==
    /\ ServerCreated
    /\ server.options.readOnly
    /\ Truthy(server.effectiveScope, "project")
    /\ Truthy(server.effectiveScope, "config")
    /\ Len(ApiTools) >= 2

(***************************************************************************)
(* Properties of the invocation engine (specification Spec).               *)
(***************************************************************************)
Dimensions == {"project", "config"}

Origin(dimension) == dimension \o "Source"

Started(call) == call.pc # "idle"

\* the caller of `call` received a ScopeViolationError with this message
FailsWithViolation(call, message) ==
    /\ call.pc = "done"
    /\ call.outcome.kind = "thrown"
    /\ call.outcome.error = ScopeViolationError(message)

\* the message the claim names for a dimension whose origin is token or cli
VariantOfOrigin(dimension, requested) ==
    IF scope[Origin(dimension)] = "token"
    THEN TokenViolationMessage(dimension, scope[dimension], requested)
    ELSE ConfiguredViolationMessage(dimension, scope[dimension], requested)

\* C1 as stated: whenever the scope has a dimension set (non-empty) with origin
\* token or cli and the input has it set (non-empty) to a different value, the
\* invocation fails with a ScopeViolation whose message is the variant of that
\* dimension's origin, quoting the configured and the requested value.
C1_EveryDimensionReported ==
    \A c \in Callers, d \in Dimensions :
        LET call == invocations[c]
        IN (Started(call) /\ Violates(scope, call.args, d) /\ Has(scope, Origin(d)))
               => FailsWithViolation(call, VariantOfOrigin(d, call.args[d]))

\* C1 amended: the project violation is reported in every such case; the
\* config violation is reported when the input does not also violate the
\* project scope, whose check runs first and then decides the message.
C1_ViolationReported ==
    \A c \in Callers, d \in Dimensions :
        LET call == invocations[c]
        IN (/\ Started(call)
            /\ Violates(scope, call.args, d)
            /\ Has(scope, Origin(d))
            /\ (d = "config" => ~Violates(scope, call.args, "project")))
               => FailsWithViolation(call, VariantOfOrigin(d, call.args[d]))

\* a config violation under a token-scoped config and a cli-scoped project
\* that the input respects
C1_Witness ==
    \E c \in Callers :
        /\ Started(invocations[c])
        /\ Violates(scope, invocations[c].args, "config")
        /\ Truthy(invocations[c].args, "project")
        /\ Has(scope, "projectSource") /\ scope.projectSource = "cli"
        /\ Has(scope, "configSource") /\ scope.configSource = "token"
        /\ FailsWithViolation(invocations[c],
               TokenViolationMessage("config", scope.config, invocations[c].args.config))

\* the response or rejection that settled the call was a failure
SettledWithFailure(call) ==
    /\ call.pc = "done"
    /\ call.settled # <<>>
    /\ (~call.settled[1].resolved \/ ~call.settled[1].ok)

\* C2: an invocation calls the HTTP collaborator at most once: never when the
\* scope guard raised, and a failed call is not re-issued but returned as the
\* failure of that invocation.
C2_AtMostOneHttpCall ==
    \A c \in Callers :
        LET call == invocations[c]
        IN Started(call) =>
            /\ Len(call.requests) <= 1
            /\ Len(call.fetches) <= 1
            /\ (ScopeGuard(scope, call.args) # <<>>
                    => call.requests = <<>> /\ call.fetches = <<>>)
            /\ (call.pc = "fetching" => Len(call.fetches) = 1)
            /\ (SettledWithFailure(call)
                    => Len(call.fetches) = 1 /\ call.outcome.kind = "thrown")

\* a call whose fetch was rejected, finished with an error after one fetch
C2_Witness ==
    \E c \in Callers :
        /\ SettledWithFailure(invocations[c])
        /\ ~invocations[c].settled[1].resolved
        /\ Len(invocations[c].fetches) = 1
        /\ invocations[c].outcome.kind = "thrown"

\* C3: a scope violation raised in executeTool reaches the caller as the same
\* ScopeViolationError, message unchanged; an error raised by the HTTP
\* collaborator never reaches the caller as a ScopeViolationError.
C3_ViolationStaysDistinct ==
    \A c \in Callers :
        LET call == invocations[c]
        IN (call.pc = "done" /\ call.raised # <<>>) =>
            /\ call.outcome.kind = "thrown"
            /\ (call.raised[1].name = "ScopeViolationError"
                    => call.outcome.error = call.raised[1])
            /\ (call.raised[1].name # "ScopeViolationError"
                    => call.outcome.error.name # "ScopeViolationError")
            /\ (call.outcome.error.name = "ScopeViolationError"
                    => ScopeGuard(scope, call.args) = <<call.outcome.error>>)

\* a call rejected by the guard whose caller holds the ScopeViolationError
C3_Witness ==
    \E c \in Callers :
        /\ invocations[c].pc = "done"
        /\ ScopeGuard(scope, invocations[c].args) # <<>>
        /\ invocations[c].outcome.kind = "thrown"
        /\ invocations[c].outcome.error.name = "ScopeViolationError"

\* the tool has a parameter of this name at one of these locations
DeclaresAt(tool, name, locations) ==
    \E i \in 1..Len(tool.parameters) :
        tool.parameters[i].name = name /\ tool.parameters[i].in \in locations

\* the path or query parameters of the request carry `value` for `name`
Carries(tool, request, name, value) ==
    \/ /\ DeclaresAt(tool, name, {"query"})
       /\ name \in DOMAIN request.queryParams
       /\ request.queryParams[name] = value
    \/ /\ DeclaresAt(tool, name, {"path"})
       /\ ~Contains(request.endpoint, "{" \o name \o "}")
       /\ Contains(request.endpoint, "/" \o encodeURIComponent(value))

\* the input with the key given explicitly as the scope value
WithScopeValue(input, d) == Assign(input, [k \in {d} |-> scope[d]])

\* what an invocation of its own does with an input: the guard, then the request
RequestFor(tool, input) ==
    IF ScopeGuard(scope, input) # <<>> THEN <<>>
    ELSE <<BuildRequest(tool, InjectScope(scope, tool, input))>>

\* C4 as stated: under a scope with a dimension set and a tool that declares
\* the parameter, an invocation that omits the key does not fail, its request
\* carries the scope value in its path or query parameters, and the request
\* is the one of the invocation with the key given as the scope value.
C4_AutoFillAnyDeclared ==
    \A c \in Callers, d \in Dimensions :
        LET call == invocations[c]
        IN (/\ Started(call)
            /\ Truthy(scope, d)
            /\ Declares(call.tool, d)
            /\ d \notin DOMAIN call.args)
               => /\ call.requests # <<>>
                  /\ Carries(call.tool, call.requests[1], d, scope[d])
                  /\ RequestFor(call.tool, WithScopeValue(call.args, d)) = call.requests

\* C4 amended: the same for a tool that declares the parameter in the path or
\* the query, and an input that the scope guard lets through; giving the key
\* explicitly as the scope value is let through as well.
C4_AutoFill ==
    \A c \in Callers, d \in Dimensions :
        LET call == invocations[c]
        IN (/\ Started(call)
            /\ Truthy(scope, d)
            /\ DeclaresAt(call.tool, d, {"path", "query"})
            /\ d \notin DOMAIN call.args
            /\ ScopeGuard(scope, call.args) = <<>>)
               => /\ call.requests # <<>>
                  /\ Carries(call.tool, call.requests[1], d, scope[d])
                  /\ ScopeGuard(scope, WithScopeValue(call.args, d)) = <<>>
                  /\ RequestFor(call.tool, WithScopeValue(call.args, d)) = call.requests

\* a project filled into the path of a request whose input had no project
C4_Witness ==
    \E c \in Callers :
        /\ Started(invocations[c])
        /\ Truthy(scope, "project")
        /\ DeclaresAt(invocations[c].tool, "project", {"path"})
        /\ "project" \notin DOMAIN invocations[c].args
        /\ invocations[c].requests # <<>>
        /\ Carries(invocations[c].tool, invocations[c].requests[1], "project", scope.project)

\* the keys of the input that executeTool claimed as path or query parameters
Claimed(call) ==
    {call.tool.parameters[i].name : i \in
        {j \in 1..Len(call.tool.parameters) :
            /\ call.tool.parameters[j].in \in {"path", "query"}
            /\ call.tool.parameters[j].name \in DOMAIN call.input}}

\* C6: for a tool with a JSON body, every key of the input that was not
\* claimed as a path or query parameter is in the body of the built request
\* with its value, and no claimed key is in the body.
C6_UnclaimedKeysInBody ==
    \A c \in Callers :
        LET call == invocations[c]
        IN (/\ Started(call)
            /\ call.requests # <<>>
            /\ HasJsonBody(call.tool.requestBody))
               => /\ \A key \in DOMAIN call.input \ Claimed(call) :
                         /\ Has(call.requests[1], "body")
                         /\ key \in DOMAIN call.requests[1].body
                         /\ call.requests[1].body[key] = call.input[key]
                  /\ \A key \in Claimed(call) :
                         Has(call.requests[1], "body")
                             => key \notin DOMAIN call.requests[1].body

(***************************************************************************)
(* Properties of the validators (specification SpecValidation).            *)
(***************************************************************************)
Validated == validation.pc = "done"

\* C5: an input that a compiled validator accepts is returned with every key
\* the schema does not declare still present and unchanged, at the top level,
\* in nested objects and in the objects of arrays: the output is the input.
C5_UnknownKeysPreserved ==
    (Validated /\ validation.result.success)
        => validation.result.data = Obj(validation.input)

\* an accepted input with undeclared keys at the top level, in a nested
\* object, in an object nested in it, and in an object of an array
C5_Witness ==
    /\ Validated
    /\ validation.result.success
    /\ {"secrets", "items"} \subseteq DOMAIN validation.inputSchema.shape
    /\ {"secrets", "items", "name"} \subseteq DOMAIN validation.input
    /\ "name" \notin DOMAIN validation.inputSchema.shape
    /\ validation.input.secrets.t = "object"
    /\ "A" \in DOMAIN validation.input.secrets.v
    /\ "deep" \in DOMAIN validation.input.secrets.v.inner.v
    /\ validation.input.items.t = "array"
    /\ "extra" \in DOMAIN validation.input.items.v[1].v

\* the parameters of the operation declared with required = true
RequiredParameters(operation) ==
    {operation.parameters[i].name : i \in
        {j \in 1..Len(operation.parameters) : operation.parameters[j].required}}

\* the keys of the input that the validator declares hold values their own
\* field validators accept, and no key the validator requires is missing
PresentFieldsValid ==
    \A key \in DOMAIN validation.inputSchema.shape :
        ParseZod(validation.inputSchema.shape[key], Prop(validation.input, key)).success

\* C7: the validator of a compiled tool rejects every input in which a
\* parameter declared with required = true is absent, and accepts an input
\* that omits optional parameters when the required ones are present and valid.
C7_RequiredParameterEnforced ==
    Validated =>
        /\ (RequiredParameters(validation.operation) \ DOMAIN validation.input # {}
                => ~validation.result.success)
        /\ (/\ RequiredParameters(validation.operation) \subseteq DOMAIN validation.input
            /\ PresentFieldsValid)
               => validation.result.success

(***************************************************************************)
(* Properties of the compile pass (specification SpecCompiler).            *)
(***************************************************************************)
\* C8: the names of the tools of one compile pass are pairwise distinct.
C8_NamesDistinct ==
    compiler.pc = "compiled" =>
        \A i, j \in 1..Len(compiler.tools) :
            i # j => compiler.tools[i].name # compiler.tools[j].name

(***************************************************************************)
(* Properties of the tool names (specification SpecNamer).                 *)
(***************************************************************************)
Named == namer.pc = "done"

\* C9: a compiled name, from a clean or an ugly identifier, has at most 64
\* characters and does not end with an underscore, also when it was cut.
C9_NameBounded ==
    Named => Len(namer.name) <= MaxNameLen /\ ~EndsWith(namer.name, "_")

\* a clean identifier longer than the limit whose cut fell on an underscore
C9_Witness ==
    /\ Named
    /\ isCleanOperationId(namer.in.operationId)
    /\ Len(namer.in.operationId) > MaxNameLen
    /\ CharAt(DashesToUnderscores(namer.in.operationId), MaxNameLen) = "_"
    /\ Len(namer.name) = MaxNameLen - 1

\* C10 as stated: a compiled name, from a clean or an ugly identifier, does
\* not begin with an underscore.
C10_NoLeadingUnderscore ==
    Named => ~StartsWith(namer.name, "_")

\* C10 amended: the name does not begin with an underscore when the identifier
\* is ugly, nor when it is clean and begins with neither a dash nor an
\* underscore.
C10_NoLeadingUnderscoreUnlessGiven ==
    (/\ Named
     /\ \/ ~isCleanOperationId(namer.in.operationId)
        \/ CharAt(namer.in.operationId, 1) \notin {"-", "_"})
        => ~StartsWith(namer.name, "_")

\* an ugly identifier on a path whose first segment is an underscore
C10_Witness ==
    /\ Named
    /\ ~isCleanOperationId(namer.in.operationId)
    /\ StartsWith(namer.in.path, "/v3/_")
    /\ namer.name # ""
    /\ ~StartsWith(namer.name, "_")

\* steps 1 to 3 of generateFromPath: the segments of the path that are kept
RetainedParts(path) ==
    PathParts(SplitSegments(IF StartsWith(path, "/v3/")
                            THEN SubSeq(path, 5, Len(path)) ELSE path))

\* the last retained segment of the path is a known action word
OnActionPath(path) ==
    LET parts == RetainedParts(path)
    IN parts # <<>> /\ parts[Len(parts)] \in actionWords

\* C11: on a path whose last retained segment is a known action word, a DELETE
\* and a POST operation with ugly identifiers compile to two distinct names,
\* and the name of the DELETE operation ends in _delete.
C11_DeleteDistinctFromPost ==
    (/\ Named
     /\ ToUpperCase(namer.in.method) = "DELETE"
     /\ ~isCleanOperationId(namer.in.operationId)
     /\ OnActionPath(namer.in.path))
        => /\ namer.name # generateToolName("post", namer.in.path, namer.in.operationId)
           /\ EndsWith(namer.name, "_delete")

(***************************************************************************)
(* Further properties of the compile pass (specification SpecCompiler).    *)
(***************************************************************************)
Compiled == compiler.pc = "compiled"

IsLive(e) == ~e.operation.deprecated

\* parseToTools reaches createToolFromOperation for e and gets a tool back
IsCompilable(e) ==
    /\ e.operation.operationId # ""
    /\ ~e.operation.deprecated
    /\ ~createInputSchemaThrows(e.operation)

\* the tool is the definition of the operation at entry e of the document
ComesFrom(tool, e) ==
    /\ tool.endpoint = e.path
    /\ tool.method = ToUpperCase(e.method)
    /\ tool.parameters = e.operation.parameters
    /\ tool.requestBody = e.operation.requestBody

\* the tools are the definitions of the given entries, one each, in order
InOrderOf(tools, entries) ==
    /\ Len(tools) = Len(entries)
    /\ \A i \in 1..Len(tools) : ComesFrom(tools[i], entries[i])

\* C12 as stated: a document with N non-deprecated operations compiles to
\* exactly N tools, those of the non-deprecated operations in document order.
C12_OneToolPerLiveOperation ==
    Compiled => InOrderOf(compiler.tools, SelectSeq(compiler.paths, IsLive))

\* C12 amended: the tools are those of the non-deprecated operations that
\* have an operationId and a schema that compiles, in document order; there
\* are exactly N of them when every non-deprecated operation is such.
C12_OneToolPerCompilableOperation ==
    Compiled =>
        /\ InOrderOf(compiler.tools, SelectSeq(compiler.paths, IsCompilable))
        /\ (\A i \in 1..Len(compiler.paths) :
                IsLive(compiler.paths[i]) => IsCompilable(compiler.paths[i]))
               => Len(compiler.tools) = Len(SelectSeq(compiler.paths, IsLive))

\* a deprecated operation ahead of a live one: one tool, from the live one
C12_Witness ==
    /\ Compiled
    /\ Len(compiler.paths) = 2
    /\ compiler.paths[1].operation.deprecated
    /\ IsCompilable(compiler.paths[2])
    /\ Len(compiler.tools) = 1
    /\ ComesFrom(compiler.tools[1], compiler.paths[2])

\* createToolFromOperation is called for e and catches an error
FailsToCompile(e) ==
    /\ e.operation.operationId # ""
    /\ ~e.operation.deprecated
    /\ createInputSchemaThrows(e.operation)

CompilesOrIsSkipped(e) == ~FailsToCompile(e)

\* C13: when the schema of an operation cannot be compiled, the pass goes on
\* and returns what it returns for the document without that operation: no
\* tool comes from the failing operation, and every other non-deprecated
\* operation (with an operationId), before and after it, has its tool.
C13_FailureSkipsOneOperation ==
    (Compiled /\ \E i \in 1..Len(compiler.paths) : FailsToCompile(compiler.paths[i]))
        => /\ compiler.tools = parseToTools(SelectSeq(compiler.paths, CompilesOrIsSkipped))
           /\ \A i \in 1..Len(compiler.paths) :
                  IF FailsToCompile(compiler.paths[i])
                  THEN \A k \in 1..Len(compiler.tools) :
                           ~ComesFrom(compiler.tools[k], compiler.paths[i])
                  ELSE (IsLive(compiler.paths[i]) /\ compiler.paths[i].operation.operationId # "")
                           => \E k \in 1..Len(compiler.tools) :
                                  ComesFrom(compiler.tools[k], compiler.paths[i])

\* a failing operation between two others: both of them are compiled
C13_Witness ==
    /\ Compiled
    /\ Len(compiler.paths) = 3
    /\ FailsToCompile(compiler.paths[2])
    /\ Len(compiler.tools) = 2
    /\ ComesFrom(compiler.tools[1], compiler.paths[1])
    /\ ComesFrom(compiler.tools[2], compiler.paths[3])

(***************************************************************************)
(* Further properties of the invocation engine (specification Spec).       *)
(***************************************************************************)
\* the HTTP collaborator failed the invocation: makeRequest threw
FailedByCollaborator(call) ==
    /\ call.pc = "done"
    /\ call.settled # <<>>
    /\ call.raised # <<>>

\* C14 as stated: when the HTTP collaborator fails an invocation with an
\* APIError or a transport error, the caller of execute receives that same
\* error: same kind, same status code, same message, same raw payload.
C14_CollaboratorErrorUnchanged ==
    \A c \in Callers :
        FailedByCollaborator(invocations[c])
            => /\ invocations[c].outcome.kind = "thrown"
               /\ invocations[c].outcome.error = invocations[c].raised[1]

\* C14 amended: the caller receives a plain Error that has a name and a
\* message only, the message being "Error <status>: <message>", a blank line
\* and "Details: <payload>" of the collaborator's error; a rejected fetch
\* arrives as status 0 with the payload "Network or request error".
C14_CollaboratorErrorFormatted ==
    \A c \in Callers :
        FailedByCollaborator(invocations[c])
            => LET raised == invocations[c].raised[1]
                   error  == invocations[c].outcome.error
               IN /\ invocations[c].outcome.kind = "thrown"
                  /\ raised.name = "APIError"
                  /\ error.name = "Error"
                  /\ DOMAIN error = {"name", "message"}
                  /\ error.message = "Error " \o ToString(raised.statusCode) \o ": "
                                     \o raised.message \o "\n\nDetails: " \o raised.error
                  /\ ~invocations[c].settled[1].resolved
                         => /\ raised.statusCode = 0
                            /\ raised.error = "Network or request error"
                            /\ raised.message \in RejectionReasons

\* an error response with status 404, received as a formatted Error
C14_Witness ==
    \E c \in Callers :
        /\ FailedByCollaborator(invocations[c])
        /\ invocations[c].settled[1].resolved
        /\ invocations[c].raised[1].statusCode = 404
        /\ invocations[c].outcome.error.message =
               "Error 404: Could not find requested config\n\nDetails: "
               \o "{\n  \"message\": \"Could not find requested config\"\n}"

\* the names of the parameters of the tool at a location
NamesAt(tool, location) ==
    {tool.parameters[i].name : i \in
        {j \in 1..Len(tool.parameters) : tool.parameters[j].in = location}}

\* the template with the placeholder of each of the names replaced by the
\* URL-encoded value of the input
RECURSIVE Substituted(_, _, _)
Substituted(template, names, input) ==
    IF names = {} THEN template
    ELSE LET n == CHOOSE m \in names : TRUE
         IN Substituted(ReplaceFirst(template, "{" \o n \o "}",
                                     encodeURIComponent(input[n])),
                        names \ {n}, input)

BodyMapOf(call) ==
    BodyData(call.tool, call.input,
             ParamsIn(call.tool, call.input, "path"),
             ParamsIn(call.tool, call.input, "query"))

\* C16: the outgoing HTTP request carries a body only when the method of the
\* tool is POST, PUT, PATCH or DELETE, never for GET; and when the body map
\* built from the input is empty, the body is absent from the request handed
\* to the collaborator and from the HTTP request, not an empty object.
C16_BodyOnlyWhenMutating ==
    \A c \in Callers :
        LET call == invocations[c]
        IN (Started(call) /\ call.fetches # <<>>)
               => /\ Has(call.fetches[1], "body")
                         => /\ call.tool.method \in {"POST", "PUT", "PATCH", "DELETE"}
                            /\ DOMAIN call.fetches[1].body # {}
                  /\ call.tool.method = "GET" => ~Has(call.fetches[1], "body")
                  /\ DOMAIN BodyMapOf(call) = {}
                         => /\ ~Has(call.requests[1], "body")
                            /\ ~Has(call.fetches[1], "body")

\* a GET tool with a JSON body and an input that fills the body map: the
\* HTTP request goes out without a body
C16_Witness ==
    \E c \in Callers :
        /\ Started(invocations[c])
        /\ invocations[c].fetches # <<>>
        /\ invocations[c].tool.method = "GET"
        /\ DOMAIN BodyMapOf(invocations[c]) # {}
        /\ ~Has(invocations[c].fetches[1], "body")

(***************************************************************************)
(* Properties of concurrent invocations (specification SpecConcurrent).    *)
(***************************************************************************)
\* what makeRequest returns or throws for the way its fetch settled
ResultOf(settlement) ==
    IF settlement.resolved
    THEN AfterFetch(settlement.response)
    ELSE AfterFetchRejected(settlement.reason)

\* the outcome of an invocation of its own with these arguments, its fetch
\* (when it gets that far) settling as given
OutcomeAlone(tool, args, settled) ==
    IF ScopeGuard(scope, args) # <<>>
    THEN [kind |-> "thrown", error |-> ExecuteCatch(ScopeGuard(scope, args)[1])]
    ELSE IF ResultOf(settled[1]).thrown
    THEN [kind |-> "thrown", error |-> ExecuteCatch(ResultOf(settled[1]).error)]
    ELSE [kind |-> "returned", text |-> formatResponse(ResultOf(settled[1]).value)]

\* every invocation has built the request, and has the outcome, of a run alone
SameAsAlone ==
    \A c \in ConcurrentCallers :
        LET call == invocations[c]
        IN Started(call)
               => /\ call.requests = RequestFor(call.tool, call.args)
                  /\ call.pc = "done"
                         => call.outcome = OutcomeAlone(call.tool, call.args, call.settled)

\* C17: for concurrent invocations, each with its own input, in any
\* interleaving of their suspensions at the network call, every invocation
\* builds the request and returns the outcome of a run alone, and no step
\* changes the ScopeConfiguration.
C17_InvocationsIndependent ==
    [](SameAsAlone) /\ [][scope' = scope]_vars

\* two invocations with different requests were suspended together; the one
\* has returned while the other is still waiting for its response
C17_Witness ==
    /\ invocations["c1"].pc = "fetching"
    /\ invocations["c2"].pc = "done"
    /\ invocations["c2"].outcome.kind = "returned"
    /\ invocations["c1"].args # invocations["c2"].args
    /\ invocations["c1"].requests # invocations["c2"].requests
    /\ scope # EmptyInput

(***************************************************************************)
(* Properties of mergeScope (specification SpecMerge).                     *)
(***************************************************************************)
Merged == merging.pc = "returned"

\* the field is unset in both objects, or set to the same value in both
SameField(a, b, field) ==
    IF Has(a, field) THEN Has(b, field) /\ a[field] = b[field] ELSE ~Has(b, field)

\* C19: CLI values take precedence over detected ones: the effective project
\* is the CLI project when given, else the detected one; the effective config
\* is the CLI config when given, else the detected one, except that with a
\* CLI project different from the detected project and no CLI config the
\* effective config is unset.
C19_CliTakesPrecedence ==
    Merged =>
        LET cliArgs   == merging.cliArgs
            detected  == merging.detected
            effective == merging.effective
        IN /\ IF "project" \in DOMAIN cliArgs
              THEN SameField(effective, cliArgs, "project")
              ELSE SameField(effective, detected, "project")
           /\ IF "config" \in DOMAIN cliArgs
              THEN SameField(effective, cliArgs, "config")
              ELSE IF /\ "project" \in DOMAIN cliArgs
                      /\ ~SameField(cliArgs, detected, "project")
                   THEN "config" \notin DOMAIN effective
                   ELSE SameField(effective, detected, "config")
           /\ DOMAIN effective \subseteq {"project", "config"}

\* a CLI project other than the detected one, no CLI config: the detected
\* config is dropped
C19_Witness ==
    /\ Merged
    /\ merging.detected = [project |-> "p1", config |-> "dev"]
    /\ merging.cliArgs = [project |-> "p2"]
    /\ merging.effective = [project |-> "p2"]

(***************************************************************************)
(* Further properties of startup (specification SpecStartup).              *)
(***************************************************************************)
\* startup has got to validateScope: the scope detection is over
ScopeValidated == server.pc \in {"started", "exited"} /\ Has(server, "detectedScope")

\* C20: validateScope fails, with the error "--config requires --project",
\* exactly when a CLI config is given and neither a CLI project nor a
\* detected project exists; otherwise it returns without error; and at
\* startup a failing validateScope prevents the server from being created.
C20_ConfigRequiresProject ==
    ScopeValidated =>
        LET cliArgs  == cliScope(server.options)
            detected == server.detectedScope
            thrown   == validateScope(detected, cliArgs)
        IN /\ thrown # <<>>
                  <=> /\ "config" \in DOMAIN cliArgs
                      /\ "project" \notin DOMAIN cliArgs
                      /\ "project" \notin DOMAIN detected
           /\ thrown # <<>>
                  => /\ StartsWith(thrown[1].message, "--config requires --project")
                     /\ server.pc = "exited"
                     /\ server.error = thrown[1]
                     /\ ~Has(server, "mcp")
                     /\ scope = NoScope
           /\ thrown = <<>>
                  => /\ server.pc = "started"
                     /\ Has(server, "mcp")
                     /\ ~Has(server, "error")

\* a service token that lists two projects, started with --config only: the
\* process ends on the error and no server exists
C20_Witness ==
    /\ ScopeValidated
    /\ server.pc = "exited"
    /\ detectTokenType(server.token) = "service_token"
    /\ server.detectedScope = EmptyInput
    /\ cliScope(server.options) = [config |-> "dev"]
    /\ ~Has(server, "mcp")

(***************************************************************************)
(* Properties of scope detection (specification SpecStartup).              *)
(***************************************************************************)
\* detectImplicitScope has returned: only a service token has it called
DetectionReturned ==
    /\ Has(server, "detectedScope")
    /\ server.tokenType = "service_token"

\* the calls detectImplicitScope has made to its client, by method
CallsOf(method) ==
    {i \in 1..Len(server.scopeCalls) : server.scopeCalls[i].method = method}

\* C21: detectImplicitScope returns a project exactly when its client lists
\* exactly one project, and then that project; it returns a config exactly
\* when the client moreover lists exactly one config of that project, and
\* then that config.  It asks for the configs only after it has found exactly
\* one project, for that project, and never when there are no or several
\* projects.
C21_DetectsSingleProjectAndConfig ==
    LET projects == server.api.projects
        configs  == server.api.configs
    IN /\ DetectionReturned =>
              LET detected == server.detectedScope
              IN /\ Has(detected, "project") <=> Len(projects) = 1
                 /\ Has(detected, "project") => detected.project = projects[1].slug
                 /\ Has(detected, "config") <=> (Len(projects) = 1 /\ Len(configs) = 1)
                 /\ Has(detected, "config") => detected.config = configs[1].name
       /\ Has(server, "scopeCalls") =>
              /\ \A i \in CallsOf("listConfigs") :
                     /\ Len(projects) = 1
                     /\ i = 2
                     /\ server.scopeCalls[1].method = "listProjects"
                     /\ server.scopeCalls[i].project = projects[1].slug
              /\ Len(projects) # 1 => CallsOf("listConfigs") = {}
              /\ Cardinality(CallsOf("listProjects")) <= 1

\* detection returned a project and a config after asking for both lists
C21_Witness ==
    /\ DetectionReturned
    /\ Has(server.detectedScope, "project")
    /\ Has(server.detectedScope, "config")
    /\ Len(server.scopeCalls) = 2

\* the server was started from a command line without --project and --config
StartedWithoutScopeFlags ==
    /\ ServerCreated
    /\ ~Has(server.options, "project")
    /\ ~Has(server.options, "config")

\* the effective scope that one project, and one config of it, call for
ScopeOfSingleAccess ==
    LET projects == server.api.projects
        configs  == server.api.configs
    IN IF Len(projects) # 1 THEN EmptyObject
       ELSE IF Len(configs) # 1 THEN [project |-> projects[1].slug]
       ELSE [project |-> projects[1].slug, config |-> configs[1].name]

StartedContext ==
    accessContext(server.tokenType, server.options, server.effectiveScope)

\* the confirm_access tools registered with the server
ConfirmTools == SelectSeq(server.mcp.tools, LAMBDA t : t.name = "confirm_access")

\* read-only, a project set, a token type that is neither unknown nor scim,
\* and no production config
SafeContext(ctx) ==
    /\ ctx.readOnly
    /\ Has(ctx, "project") /\ ctx.project # ""
    /\ ctx.tokenType \notin {"unknown", "scim"}
    /\ ~(Has(ctx, "config") /\ isProductionConfig(ctx.config))

\* C23: createConfirmAccessTool returns no tool exactly when getAccessMessages
\* yields only info-level messages for the access context, that is when the
\* server is read-only, a project is set, the token type is neither unknown
\* nor scim and the config is not a production config; in every other
\* context it returns a tool named confirm_access whose output lists every
\* info message and every warning and critical message.
C23_ConfirmToolUnlessSafe ==
    ServerCreated =>
        LET ctx      == StartedContext
            messages == getAccessMessages(ctx)
            onlyInfo == \A i \in 1..Len(messages) : messages[i].level = "info"
        IN /\ (ConfirmTools = <<>>) <=> onlyInfo
           /\ onlyInfo <=> SafeContext(ctx)
           /\ ~SafeContext(ctx) =>
                  /\ Len(ConfirmTools) = 1
                  /\ \A i \in 1..Len(messages) :
                         Contains(ConfirmTools[1].execute.returns,
                                  "  " \o messages[i].emoji \o " " \o messages[i].message \o "\n")
           /\ \A i \in 1..Len(messages) :
                  messages[i].level \in {"info", "warning", "critical"}

\* a read-only server on a production config: a tool with a critical message
C23_Witness ==
    /\ ServerCreated
    /\ server.options.readOnly
    /\ Len(ConfirmTools) = 1
    /\ Contains(ConfirmTools[1].execute.returns, "PRODUCTION CONFIG: prd")
    /\ Contains(ConfirmTools[1].execute.returns, "Mode: read-only")

\* a safe context: read-only, scoped to a project, no confirm_access tool
C23_WitnessSafe ==
    /\ ServerCreated
    /\ SafeContext(StartedContext)
    /\ ConfirmTools = <<>>

(***************************************************************************)
(* Properties of the scope startup arrives at (specification SpecStartup). *)
(***************************************************************************)
\* a config without a project
ConfigWithoutProject(sc) == Truthy(sc, "config") /\ ~Truthy(sc, "project")

\* a dimension that is set has its origin: cli when the command line gave
\* it, token otherwise
OriginSet(d) ==
    Truthy(scope, d) =>
        /\ Has(scope, d \o "Source")
        /\ scope[d \o "Source"] = IF Has(server.options, d) THEN "cli" ELSE "token"

\* C28: for every token type, detected scope and CLI arguments with which
\* startup gets past validateScope, neither the effective scope nor the
\* ScopeConfiguration given to the tool generator has a non-empty config
\* together with an absent or empty project, and every dimension that is set
\* has its origin set (cli when the CLI gave it, token otherwise).
C28_NoConfigWithoutProject ==
    ServerCreated =>
        /\ ~ConfigWithoutProject(server.effectiveScope)
        /\ ~ConfigWithoutProject(scope)
        /\ OriginSet("project")
        /\ OriginSet("config")

(***************************************************************************)
(* The shape of a name generated from the path (specification SpecNamer).  *)
(***************************************************************************)
\* an ugly identifier, one of the five methods, and a path whose last
\* retained segment is no action word
NamedFromPlainPath ==
    /\ Named
    /\ ~isCleanOperationId(namer.in.operationId)
    /\ ~OnActionPath(namer.in.path)
    /\ ToUpperCase(namer.in.method) \in {"GET", "POST", "PUT", "PATCH", "DELETE"}

\* the action of the method: GET gives get on a path that ends on a template
\* marker and list otherwise, POST create, PUT and PATCH update, DELETE delete
StatedAction(method, path) ==
    LET m == ToUpperCase(method)
    IN IF m = "GET" THEN (IF EndsWith(path, "}") THEN "get" ELSE "list")
       ELSE IF m = "POST" THEN "create"
       ELSE IF m = "DELETE" THEN "delete"
       ELSE "update"

\* the retained segments joined by underscores, followed by the action
\* unless they already end with it
SegmentsThenAction(method, path) ==
    LET joined == Join(RetainedParts(path))
        action == StatedAction(method, path)
    IN IF joined = "" THEN action
       ELSE IF EndsWith(joined, action) THEN joined
       ELSE joined \o "_" \o action

\* runs of underscores collapsed, one underscore trimmed at either end
CleanedUp(name) ==
    StripTrailingUnderscore(StripLeadingUnderscore(CollapseUnderscores(name)))

\* C24 as stated: for an ugly identifier whose path has no action word as
\* last retained segment and whose derived name is within the 64-character
\* limit, the name is the non-template segments of the path after the
\* version prefix, dashes turned into underscores, joined by underscores,
\* followed by the action of the method, the action being appended unless
\* the joined segments already end with it.
C24_SegmentsThenAction ==
    (NamedFromPlainPath
     /\ Len(SegmentsThenAction(namer.in.method, namer.in.path)) <= MaxNameLen)
        => namer.name = SegmentsThenAction(namer.in.method, namer.in.path)

\* C24, amended: the name is the above after its clean-up, in which every
\* run of underscores becomes one underscore and an underscore at the start
\* and at the end is removed.
C24_SegmentsThenActionCleaned ==
    (NamedFromPlainPath
     /\ Len(SegmentsThenAction(namer.in.method, namer.in.path)) <= MaxNameLen)
        => namer.name = CleanedUp(SegmentsThenAction(namer.in.method, namer.in.path))

\* a GET on a path that ends on a template marker, after a segment that
\* ends with a dash
C24_Witness ==
    /\ NamedFromPlainPath
    /\ namer.in.method = "get"
    /\ namer.in.path = "/v3/x-/{config}"
    /\ namer.name = "x_get"

(***************************************************************************)
(* One schema with an enum converted by convertSchemaToZod, and one value  *)
(* parsed by the validator it returns.                                     *)
(***************************************************************************)
MaxEnum == 2

EnumLiterals ==
    {Str("a"), Str("\"a\""), Str("a\"b"), Str("'c'"), Num(1), Bool(TRUE)}

\* what a schema may declare besides its enum
EnumCompanions ==
    {EmptyObject,
     [type |-> "string"],
     [type |-> "string", format |-> "email"],
     [type |-> "integer", minimum |-> 5, maximum |-> 9]}

EnumSchemas ==
    {Assign(companion, [enum |-> literals]) :
        companion \in EnumCompanions,
        literals \in UNION {[1..n -> EnumLiterals] : n \in 0..MaxEnum}}

EnumValues ==
    {Str("a"), Str("\"a\""), Str("a\"b"), Str("ab"), Str("'c'"), Str("c"),
     Str("1"), Num(1), Num(7), Bool(TRUE)}

InitEnum ==
    /\ \E schema \in EnumSchemas, value \in EnumValues :
           validation = [pc |-> "schema", schema |-> schema, value |-> value]
    /\ namer = NamerIdle
    /\ compiler = CompilerIdle
    /\ scope = NoScope
    /\ merging = MergeIdle
    /\ keyring = KeyringIdle
    /\ session = NoSession
    /\ polling = PollingIdle
    /\ server = ServerIdle
    /\ invocations = NoInvocations

\* convertSchemaToZod(schema)
ConvertSchema ==
    /\ validation.pc = "schema"
    /\ validation' = [validation EXCEPT !.pc = "converted"] @@
                     [zod |-> convertSchemaToZod(validation.schema)]
    /\ UNCHANGED <<namer, compiler, scope, invocations, server, merging, keyring, session, polling>>

\* safeParse of the value by the validator
ParseValue ==
    /\ validation.pc = "converted"
    /\ validation' = [validation EXCEPT !.pc = "parsed"] @@
                     [result |-> ParseZod(validation.zod, validation.value)]
    /\ UNCHANGED <<namer, compiler, scope, invocations, server, merging, keyring, session, polling>>

NextEnum == ConvertSchema \/ ParseValue

SpecEnum == InitEnum /\ [][NextEnum]_vars

(***************************************************************************)
(* Properties of enum validators (specification SpecEnum).                 *)
(***************************************************************************)
EnumParsed == validation.pc = "parsed"

AllStrings(literals) == \A i \in 1..Len(literals) : literals[i].t = "string"

\* the string without any of its double quotes
RECURSIVE WithoutQuotes(_)
WithoutQuotes(s) ==
    IF s = "" THEN ""
    ELSE (IF SubSeq(s, 1, 1) = "\"" THEN "" ELSE SubSeq(s, 1, 1))
         \o WithoutQuotes(SubSeq(s, 2, Len(s)))

\* the string without a double quote that opens it and one that closes it
WithoutOuterQuotes(s) ==
    LET opened == Len(s) >= 1 /\ SubSeq(s, 1, 1) = "\""
        rest   == IF opened THEN SubSeq(s, 2, Len(s)) ELSE s
        closed == Len(rest) >= 1 /\ SubSeq(rest, Len(rest), Len(rest)) = "\""
    IN IF closed THEN SubSeq(rest, 1, Len(rest) - 1) ELSE rest

\* C25 as stated: a validator compiled from a schema with an enum accepts a
\* value exactly when the value equals one of the enum's literals, whatever
\* type, format or bounds the schema also declares; when every literal is a
\* string the literals are compared with every quote character in them
\* stripped; an enum with zero literals rejects every value.
C25_EnumAllQuotesStripped ==
    EnumParsed =>
        LET literals == validation.schema.enum
            value    == validation.value
        IN /\ validation.result.success <=>
                  \E i \in 1..Len(literals) :
                      IF AllStrings(literals)
                      THEN value = Str(WithoutQuotes(literals[i].v))
                      ELSE value = literals[i]
           /\ Len(literals) = 0 => ~validation.result.success

\* C25, amended: when every literal is a string, each literal is compared
\* after one double quote at its start and one at its end have been removed;
\* quotes inside a literal and single quotes stay.  An accepted value is
\* returned unchanged.
C25_EnumOuterQuotesStripped ==
    EnumParsed =>
        LET literals == validation.schema.enum
            value    == validation.value
        IN /\ validation.result.success <=>
                  \E i \in 1..Len(literals) :
                      IF AllStrings(literals)
                      THEN value = Str(WithoutOuterQuotes(literals[i].v))
                      ELSE value = literals[i]
           /\ Len(literals) = 0 => ~validation.result.success
           /\ validation.result.success => validation.result.data = value

\* a literal wrapped in double quotes accepts the bare text, under a
\* declared type that the text does not have
C25_Witness ==
    /\ EnumParsed
    /\ validation.schema.enum = <<Str("\"a\""), Str("a\"b")>>
    /\ Has(validation.schema, "type") /\ validation.schema.type = "integer"
    /\ validation.value = Str("a")
    /\ validation.result.success

(***************************************************************************)
(* The scope is never overridden in a request (specification Spec).        *)
(***************************************************************************)
\* the values an input may give for a dimension that are neither empty nor
\* the value of the scope
ForeignValues(d) ==
    {input[d] : input \in {i \in EngineInputs : d \in DOMAIN i}} \ {"", scope[d]}

\* the request carries the value for the dimension in its path, its query
\* or at the top level of its body
CarriesValue(tool, request, d, value) ==
    \/ d \in DOMAIN request.queryParams /\ request.queryParams[d] = value
    \/ Has(request, "body") /\ d \in DOMAIN request.body /\ request.body[d] = value
    \/ /\ DeclaresAt(tool, d, {"path"})
       /\ Contains(tool.endpoint, "{" \o d \o "}")
       /\ Contains(request.endpoint, "/" \o encodeURIComponent(value))

\* C26: under a scope with project P (config C), for every tool and every
\* input, no request handed to the HTTP collaborator carries in its path,
\* query or top-level body a non-empty project (config) value different from
\* P (C): a dispatched request has no such value or has the scope value.
C26_ScopeNeverOverridden ==
    \A c \in DOMAIN invocations :
        LET call == invocations[c]
        IN Has(call, "requests") =>
               \A i \in 1..Len(call.requests), d \in Dimensions :
                   Truthy(scope, d) =>
                       \A value \in ForeignValues(d) :
                           ~CarriesValue(call.tool, call.requests[i], d, value)

\* a request dispatched under a project and a config scope for an input that
\* names the project itself and leaves the config to the scope
C26_Witness ==
    \E c \in DOMAIN invocations :
        LET call == invocations[c]
        IN /\ Has(call, "requests") /\ Len(call.requests) = 1
           /\ Truthy(scope, "project") /\ Truthy(scope, "config")
           /\ Has(call.args, "project") /\ call.args.project = scope.project
           /\ ~Has(call.args, "config")
           /\ CarriesValue(call.tool, call.requests[1], "project", scope.project)
           /\ CarriesValue(call.tool, call.requests[1], "config", scope.config)
           /\ DeclaresAt(call.tool, "project", {"path"})

(***************************************************************************)
(* C29: the keyring entry at startup                                       *)
(***************************************************************************)

\* the step deleted the password of the keyring entry
KeyringEntryDeleted == Has(keyring, "password") /\ ~Has(keyring', "password")

\* the token that was tried came from the keyring and the connection test
\* ended with an HTTP error response
RejectedKeyringToken ==
    /\ ~Has(server.env, "DOPPLER_TOKEN")
    /\ Has(server', "connection")
    /\ server'.connection.resolved
    /\ ~server'.connection.ok

\* C29: at startup the keyring entry is deleted only if the token that was
\* tried had been loaded from the keyring and the API answered the connection
\* test with an HTTP error response; with a token from DOPPLER_TOKEN, or a
\* connection test that failed without a response, the entry stays
C29_KeyringDeletedOnlyOnRejection ==
    [][KeyringEntryDeleted => RejectedKeyringToken]_vars

\* the same for a token from DOPPLER_TOKEN alone
C29_KeyringKeptForEnvironmentToken ==
    [][KeyringEntryDeleted => ~Has(server.env, "DOPPLER_TOKEN")]_vars

\* the same for a connection test without a response alone
C29_KeyringKeptWithoutResponse ==
    [][KeyringEntryDeleted /\ Has(server', "connection") => server'.connection.resolved]_vars

(***************************************************************************)
(* A session of tool calls on a started server: the client names a         *)
(* registered tool and the server runs its execute.  C27.                  *)
(***************************************************************************)
MaxCalls == 2       \* tool calls in one session

SessionTokens == {"dp.st.abc", "dp.pt.abc", "dp.scim.abc"}

\* command lines that pass validateScope
SessionOptions == {options \in CliOptions : Has(options, "config") => Truthy(options, "project")}

SessionInputs == {EmptyInput, [project |-> "p1"], [project |-> "p2", config |-> "dev"]}

\* the server as startAuthenticatedServer leaves it: the tools it has added,
\* confirm_access first when there is one, and the scope of the generator
InitSession ==
    /\ \E token \in SessionTokens, options \in SessionOptions :
           LET effectiveScope == mergeScope(EmptyObject, cliScope(options))
               dopplerTools   == FilterTools(options, effectiveScope,
                                             parseToTools(StartupDocument))
               confirmAccessTool ==
                   createConfirmAccessTool(
                       accessContext(detectTokenType(token), options, effectiveScope))
           IN /\ session = [tools |-> confirmAccessTool \o generateTools(dopplerTools),
                            calls |-> <<>>]
              /\ scope = scopeOptions(options, EmptyObject, effectiveScope)
    /\ server = ServerIdle
    /\ merging = MergeIdle
    /\ keyring = KeyringIdle
    /\ polling = PollingIdle
    /\ invocations = NoInvocations
    /\ namer = NamerIdle
    /\ compiler = CompilerIdle
    /\ validation = ValidationIdle

\* the client calls confirm_access: execute returns its text, nothing else
CallConfirmAccess ==
    /\ Len(session.calls) < MaxCalls
    /\ \E i \in 1..Len(session.tools) :
           /\ session.tools[i].name = "confirm_access"
           /\ session' = [session EXCEPT !.calls =
                  Append(@, [tool |-> "confirm_access", requests |-> <<>>,
                             returned |-> session.tools[i].execute.returns])]
    /\ UNCHANGED <<scope, namer, compiler, validation, invocations, server, merging,
                   keyring, polling>>

\* the client calls a generated tool: execute up to the call of fetch
CallDopplerTool ==
    /\ Len(session.calls) < MaxCalls
    /\ \E i \in 1..Len(session.tools), args \in SessionInputs :
           /\ session.tools[i].name # "confirm_access"
           /\ LET tool   == session.tools[i].execute.dopplerTool
                  thrown == ScopeGuard(scope, args)
                  input  == InjectScope(scope, tool, args)
              IN session' = [session EXCEPT !.calls =
                     Append(@, [tool |-> tool.name, args |-> args,
                                requests |-> IF thrown # <<>> THEN <<>>
                                             ELSE <<FetchCall(BuildRequest(tool, input))>>])]
    /\ UNCHANGED <<scope, namer, compiler, validation, invocations, server, merging,
                   keyring, polling>>

NextSession == CallConfirmAccess \/ CallDopplerTool

SpecSession == InitSession /\ [][NextSession]_vars

ConfirmAccessRegistered ==
    \E i \in 1..Len(session.tools) : session.tools[i].name = "confirm_access"

\* C27: when confirm_access is registered, no other tool performs its HTTP
\* call in a session before confirm_access has been executed in that session
C27_ConfirmAccessBeforeAnyRequest ==
    ConfirmAccessRegistered =>
        \A i \in 1..Len(session.calls) :
            session.calls[i].requests # <<>> =>
                \E j \in 1..(i - 1) : session.calls[j].tool = "confirm_access"

\* a session in which confirm_access came first
C27_ConfirmedSession ==
    /\ Len(session.calls) = 2
    /\ session.calls[1].tool = "confirm_access"
    /\ session.calls[2].requests # <<>>

(***************************************************************************)
(* DeviceAuthState: polling for the token of a device login.  C30.         *)
(***************************************************************************)
MaxPolls == 4       \* poll requests one DeviceAuthState starts

\* what fetch can resolve with for POST /v3/auth/cli/authorize
PollResponses ==
    { [status |-> 409, ok |-> FALSE],
      [status |-> 500, ok |-> FALSE],
      [status |-> 200, ok |-> TRUE, data |-> [error |-> "expired"]],
      [status |-> 200, ok |-> TRUE, data |-> [token |-> "dp.pt.one", name |-> "cli"]],
      [status |-> 200, ok |-> TRUE, data |-> [token |-> "dp.pt.two", name |-> "cli"]] }

\* pollForToken once fetch has resolved: the PollResult, or thrown
pollForToken(response) ==
    IF response.status = 409 THEN [thrown |-> FALSE, pending |-> TRUE]
    ELSE IF ~response.ok THEN [thrown |-> TRUE]
    ELSE IF Truthy(response.data, "error") THEN [thrown |-> TRUE]
    ELSE [thrown |-> FALSE, pending |-> FALSE,
          token |-> response.data.token, name |-> response.data.name]

\* new DeviceAuthState(...); handleLogin then calls startPolling
InitPolling ==
    /\ polling = [pc |-> "created", isAuthenticated |-> FALSE, pollingInterval |-> FALSE,
                  timedOut |-> FALSE, inFlight |-> 0, requests |-> 0,
                  onAuthenticated |-> <<>>]
    /\ session = NoSession
    /\ keyring = KeyringIdle
    /\ server = ServerIdle
    /\ scope = NoScope
    /\ merging = MergeIdle
    /\ invocations = NoInvocations
    /\ namer = NamerIdle
    /\ compiler = CompilerIdle
    /\ validation = ValidationIdle

\* DeviceAuthState.stopPolling
stopPolling(state) == [state EXCEPT !.pollingInterval = FALSE]

\* DeviceAuthState.complete
complete(state) == stopPolling([state EXCEPT !.isAuthenticated = TRUE])

\* poll up to its await: the two early returns, or the request is sent
poll(state) ==
    IF state.isAuthenticated THEN stopPolling(state)
    ELSE IF state.timedOut THEN stopPolling(state)
    ELSE [state EXCEPT !.inFlight = @ + 1, !.requests = @ + 1]

\* whether poll would send a request
PollSends(state) == ~state.isAuthenticated /\ ~state.timedOut

\* startPolling(onAuthenticated): nothing while an interval is set; otherwise
\* the first poll at once, then the interval
StartPolling ==
    /\ polling.pc \in {"created", "polling"}
    /\ PollSends(polling) => polling.requests < MaxPolls
    /\ polling' = IF polling.pollingInterval THEN polling
                  ELSE [poll(polling) EXCEPT !.pc = "polling", !.pollingInterval = TRUE]
    /\ UNCHANGED <<scope, namer, compiler, validation, invocations, server, merging,
                   keyring, session>>

\* the interval fires, 2 seconds after the last time
Tick ==
    /\ polling.pc = "polling"
    /\ polling.pollingInterval
    /\ PollSends(polling) => polling.requests < MaxPolls
    /\ polling' = poll(polling)
    /\ UNCHANGED <<scope, namer, compiler, validation, invocations, server, merging,
                   keyring, session>>

\* the rest of poll once pollForToken has settled
PollSettles(state, result) ==
    LET received == [state EXCEPT !.inFlight = @ - 1]
    IN IF ~result.thrown /\ ~result.pending
       THEN [complete(received) EXCEPT !.onAuthenticated =
                Append(@, [token |-> result.token, name |-> result.name])]
       ELSE received

\* the fetch of a poll request resolves
PollResponds ==
    /\ polling.pc = "polling"
    /\ polling.inFlight > 0
    /\ \E response \in PollResponses :
           polling' = PollSettles(polling, pollForToken(response))
    /\ UNCHANGED <<scope, namer, compiler, validation, invocations, server, merging,
                   keyring, session>>

\* the fetch of a poll request rejects
PollRejects ==
    /\ polling.pc = "polling"
    /\ polling.inFlight > 0
    /\ polling' = PollSettles(polling, [thrown |-> TRUE])
    /\ UNCHANGED <<scope, namer, compiler, validation, invocations, server, merging,
                   keyring, session>>

\* the clock passes startedAt + 5 minutes
TimeoutPasses ==
    /\ polling.pc \in {"created", "polling"}
    /\ ~polling.timedOut
    /\ polling' = [polling EXCEPT !.timedOut = TRUE]
    /\ UNCHANGED <<scope, namer, compiler, validation, invocations, server, merging,
                   keyring, session>>

NextPolling == StartPolling \/ Tick \/ PollResponds \/ PollRejects \/ TimeoutPasses

SpecPolling == InitPolling /\ [][NextPolling]_vars

\* C30: for every interleaving of the poll ticks and of the responses of the
\* poll requests, a request still in flight at the next tick included, the
\* onAuthenticated callback is invoked at most once, and once it has been
\* invoked or the 5-minute timeout has passed no new poll request is started
C30_CallbackOnceAndPollingEnds ==
    [][/\ Len(polling'.onAuthenticated) <= 1
       /\ polling'.requests > polling.requests =>
              polling.onAuthenticated = <<>> /\ ~polling.timedOut]_vars

\* the first half alone: onAuthenticated is invoked at most once
C30_CallbackAtMostOnce == Len(polling.onAuthenticated) <= 1

\* the second half alone: no new request after the callback or the timeout
C30_NoRequestAfterEnd ==
    [][polling'.requests > polling.requests =>
           polling.onAuthenticated = <<>> /\ ~polling.timedOut]_vars

\* two requests were in flight together, and a callback has been made
C30_OverlappingPolls ==
    /\ polling.requests >= 2
    /\ polling.inFlight >= 1
    /\ Len(polling.onAuthenticated) = 1

====
